---- MODULE Spec2Model ----
(***************************************************************************)
(* Model of the ILI9488 display daemon's triple-buffer arena and of the    *)
(* producer/daemon rendezvous on it.                                       *)
(*                                                                         *)
(*   daemon   : src/src/ili9488_daemon.cpp   (main, HandleSignal)          *)
(*   arena    : src/src/ili9488_mailbox.cpp  (ILI9488Framebuffer)          *)
(*   producer : src/scripts/frame_generator.c (main)                       *)
(*                                                                         *)
(* A frame buffer is abstracted to two halves, each holding the number of  *)
(* the frame that last wrote it (0 = the zero fill of arena creation), so  *)
(* that a torn (partially written or partially copied) frame is visible.   *)
(***************************************************************************)
EXTENDS Integers, Sequences, FiniteSets, TLC

\* ---------------------------------------------------------------- bounds
\* Number of frames the producer may write before it only idles or leaves.
MaxFrames == 2

\* Number of polls of the DMA CS register that fit into the 1 s deadline.
DmaDeadlinePolls == 2

\* Number of calls of the arena's index operations in one run.
MaxOps == 6

\* Largest width / height passed to an operation that takes dimensions.
MaxDim == 2

\* Panel dimensions given on the daemon's command line (--width, --height).
OptionsWidth == 2

OptionsHeight == 1

\* Number of transferDma calls in one run of the transport specification.
MaxTransfers == 2

\* Largest transfer_chunk_bytes tried with the small panels.
MaxChunk == 5

\* A panel dimension above 256, so that the high byte of a window end is
\* not zero and a frame is longer than the default chunk.
WidePanel == 300

\* ------------------------------------------------------ program constants
BytesPerPixel == 3

\* kTileSize of Rotate90Tiled and Rotate270Tiled.
kTileSize == 8

\* TXFR_LEN and STRIDE of the BCM DMA engine hold two 16-bit halves.
DmaHalfWord == 65536

kIli9488CmdColumnAddressSet == 42    \* 0x2A

kIli9488CmdPageAddressSet == 43      \* 0x2B

kIli9488CmdMemoryWrite == 44         \* 0x2C

kIli9488PixelFormatRgb666 == 102     \* 0x66

kIli9488PixelFormatRgb565 == 85      \* 0x55

kDefaultChunkSize == 4096

\* spi_config.transfer_chunk_bytes as ILI9488Driver::initialize sets it.
DriverChunkBytes == 65536

\* DisplayConfig defaults of the SPI clocks, copied into the transport's
\* speed_hz and init_speed_hz.
spi_hz == 65000000

spi_init_hz == 4000000

kMadctl == 72                        \* 0x40 | 0x08

Magic == 1229540409          \* 0x49494C39

Version == 1

SemInitValue_two == 2

SemInitValue == 1

Slots == {0, 1, 2}

RotationChoices == {0, 90, 180, 270}

\* Bus addresses the allocator may have discovered for buffers 0,1,2:
\* none (VCSM absent), all three, or only some of them (a failed import).
BusAddrChoices ==
    { [i \in Slots |-> 0],
      [i \in Slots |-> 16 * (i + 1)],
      [i \in Slots |-> IF i = 1 THEN 0 ELSE 16 * (i + 1)] }

ZeroFrame == <<0, 0>>

ZeroHeader ==
    [ magic |-> 0, version |-> 0, width |-> 0, height |-> 0,
      bytes_per_pixel |-> 0,
      buffer_a_bus_addr |-> 0, buffer_b_bus_addr |-> 0, buffer_c_bus_addr |-> 0,
      front_index |-> 0, back_index |-> 0, pending_index |-> 0,
      frame_counter |-> 0, rotation_degrees |-> 0,
      daemon_ready |-> 0, app_connected |-> 0 ]

VARIABLES
    \* --- daemon options / driver state fixed at start-up
    rotation_degrees,      \* options.rotation_degrees
    dma_available_,        \* ILI9488Rotate::dma_available_
    mailbox_bus_addr_,     \* ILI9488Framebuffer::mailbox_bus_addr_[3]
    pool_map,              \* cma_map_[i] / mailbox_map_[i] of the adopted pool is non-null
    \* --- ILI9488Framebuffer (daemon-local)
    front_index_, back_index_, pending_index_,
    triple_buffer_header_, \* TRUE = region mapped, FALSE = nullptr
    triple_buffer_shm_fd_, \* TRUE = descriptor open, FALSE = -1
    shm_name_,             \* TRUE = name stored, FALSE = empty string
    dma_buf,               \* contents of the three DMA buffers
    \* --- the POSIX shared-memory object
    shm_linked,            \* the name exists in the shm namespace
    header,                \* TripleBufferShmHeader (without the semaphore)
    pending_sem,           \* value of header.pending_sem
    sem_destroyed,         \* sem_destroy has been called on pending_sem
    shm_slots,             \* the three frame slots behind the header
    \* --- daemon main()
    g_running, daemonPc, last_frame_counter, current_frame_counter,
    storeStep, dma_polls, consumed, panel,
    \* --- producer main()
    producerPc, pending_buf, frame_num, completed

VARIABLES
    \* --- ILI9488Framebuffer: buffer pool (initialize and its strategies)
    use_mailbox_, using_cma_,
    dma_heap_fd_,          \* TRUE = descriptor open, FALSE = -1
    dmabuf_fd_,            \* per buffer: TRUE = descriptor open, FALSE = -1
    cma_map_,              \* per buffer: TRUE = mapped, FALSE = nullptr
    vcsm_fd_,              \* TRUE = descriptor open, FALSE = -1
    mailbox_fd_, mem_fd_,  \* TRUE = descriptor open, FALSE = -1
    mailbox_handle_,       \* per buffer: TRUE = non-zero handle stored
    mailbox_map_,          \* per buffer: TRUE = mapped, FALSE = nullptr
    cpu_buffers_,          \* TRUE = the three vectors are resized
    allocPc,               \* position in initialize() / in main() around it
    alloc_i,               \* loop index `i` of the strategy being run
    attempts,              \* strategies begun so far, with their result
    sys_log,               \* acquisitions and releases issued to the OS / VideoCore
    buffer_size_           \* bytes of one buffer of the pool and of one arena slot

allocVars == << use_mailbox_, using_cma_, dma_heap_fd_, dmabuf_fd_, cma_map_,
                vcsm_fd_, mailbox_fd_, mem_fd_, mailbox_handle_, mailbox_map_,
                cpu_buffers_, allocPc, alloc_i, attempts, sys_log,
                buffer_size_ >>

VARIABLES
    \* --- calls of the arena's public index operations, for the API laws
    op_log,                \* the calls made so far, oldest first
    snap_log               \* indices and header as they were before each call

apiVars == << op_log, snap_log >>

VARIABLES
    \* --- ILI9488Transport and the frame loop's calls of transferDma
    spi_config,            \* config_: width, height, pixel_format, transfer_chunk_bytes,
                           \* speed_hz, init_speed_hz
    current_speed_hz_,     \* clock put into every spi_ioc_transfer
    reset_writes,          \* levels written to the RESET line, in order
    spiPc,                 \* position in the frame loop / in transferDma
    spi_length,            \* the `length` argument of the current transferDma call
    dc_line,               \* level of the D/C GPIO line (TRUE = high)
    wire,                  \* SPI bursts of the current transferDma call
    offset,                \* transferDma's `offset`
    last_result,           \* what the previous transferDma call returned
    transfers              \* transferDma calls made so far

spiVars == << spi_config, current_speed_hz_, reset_writes, spiPc, spi_length, dc_line, wire, offset, last_result,
              transfers >>

VARIABLES
    \* --- the frame loop's rotation stage and calls of pixel::RotateRgb666
    rot_width, rot_height, \* the `width`, `height` arguments of the rotators
    pending_cpu,           \* bytes of the pending buffer (the source image)
    back_cpu,              \* bytes of the back buffer (the stage's destination)
    rotPc,                 \* position in the rotation stage
    rotated,               \* the stage's local `rotated`
    once_cpu,              \* destination of RotateRgb666(pending_cpu, r)
    twice_cpu,             \* destination of RotateRgb666(once_cpu, (360 - r) % 360)
    pix_rotation,          \* the angle r of the first RotateRgb666 call
    pixPc,                 \* RotateRgb666 calls made so far
    front_cpu,             \* bytes of the front buffer
    dma_cs,                \* the DMA channel's CS register: "idle", "active", "reset"
    rot_panel              \* bytes the last transferDma of the stage sent

rotVars == << rot_width, rot_height, pending_cpu, back_cpu, rotPc, rotated,
              once_cpu, twice_cpu, pix_rotation, pixPc,
              front_cpu, dma_cs, rot_panel >>

VARIABLES
    \* --- main() before the driver exists
    cmdline,               \* the environment and argv values ParseOptions reads
    options                \* the Options record ParseOptions returned

startVars == << cmdline, options >>

VARIABLES
    \* --- ILI9488Driver's frame calls
    zero_copy_mode_,       \* the driver renders into the framebuffer's pool
    use_double_buffer,     \* config_.use_double_buffer
    frontBuffer_,          \* the driver's own front vector (CPU mode)
    backBuffer_,           \* the driver's own back vector (CPU mode)
    drv_log                \* the driver calls made so far, with what each handed
                           \* to transferDma

drvVars == << zero_copy_mode_, use_double_buffer, frontBuffer_, backBuffer_,
              drv_log >>

VARIABLES
    \* --- the arena's mapping over the life of one ILI9488Framebuffer
    triple_buffer_base_,   \* TRUE = the pointer is not null
    region_mapped,         \* the region is mapped in this process
    shm_sys,               \* how often sem_destroy, munmap and close(fd) ran
    released_access,       \* a read or write went through an unmapped region
    lifePc                 \* "constructed", "failed", "created", "destroyed"

lifeVars == << triple_buffer_base_, region_mapped, shm_sys, released_access,
               lifePc >>

auxVars == << allocVars, apiVars, spiVars, rotVars, startVars, drvVars, lifeVars >>

mainVars == << rotation_degrees, dma_available_, mailbox_bus_addr_, pool_map,
               front_index_, back_index_, pending_index_,
               triple_buffer_header_, triple_buffer_shm_fd_, shm_name_, dma_buf,
               shm_linked, header, pending_sem, sem_destroyed, shm_slots,
               g_running, daemonPc, last_frame_counter, current_frame_counter,
               storeStep, dma_polls, consumed, panel,
               producerPc, pending_buf, frame_num, completed >>

vars == << mainVars, auxVars >>

configVars == << rotation_degrees, dma_available_, mailbox_bus_addr_, pool_map >>

fbIndexVars == << front_index_, back_index_, pending_index_ >>

fbShmVars == << triple_buffer_header_, triple_buffer_shm_fd_, shm_name_ >>

shmVars == << shm_linked, header, pending_sem, sem_destroyed, shm_slots >>

daemonVars == << g_running, daemonPc, last_frame_counter, current_frame_counter,
                 storeStep, dma_polls, consumed, panel >>

producerVars == << producerPc, pending_buf, frame_num, completed >>

\* ------------------------------------------------- command line
\* A value of the environment or of argv: absent, or a text, the sequence
\* of its characters.
Absent == [given |-> FALSE, text |-> << >>]

Given(text) == [given |-> TRUE, text |-> text]

DigitChars == << "0", "1", "2", "3", "4", "5", "6", "7", "8", "9" >>

IsDigit(ch) == \E k \in DOMAIN DigitChars : DigitChars[k] = ch

DigitValue(ch) == (CHOOSE k \in DOMAIN DigitChars : DigitChars[k] = ch) - 1

\* std::strtoul(value, &end, 10) on a text without sign or blanks: the value
\* of the leading digits and the position `end` where they stop.
RECURSIVE StrToUl(_, _, _)
StrToUl(text, pos, acc) ==
    IF pos <= Len(text) /\ IsDigit(text[pos])
    THEN StrToUl(text, pos + 1, acc * 10 + DigitValue(text[pos]))
    ELSE [parsed |-> acc, end |-> pos]

\* ParseUintEnv: 0 for a null pointer and for a text with anything after
\* its digits, the number otherwise (the numbers tried fit 31 bits, where
\* the casts to uint32_t and int change nothing).
ParseUintEnv(value) ==
    IF ~value.given
    THEN 0
    ELSE LET r == StrToUl(value.text, 1, 0)
         IN  IF r.end = Len(value.text) + 1 THEN r.parsed ELSE 0

\* The decimal text of a number, as a shell or a unit file writes it.
RECURSIVE DecimalText(_)
DecimalText(n) ==
    IF n < 10
    THEN << DigitChars[n + 1] >>
    ELSE Append(DecimalText(n \div 10), DigitChars[(n % 10) + 1])

\* ParseOptions: the environment first, then every argv option that is
\* present overrides it.
ParseOptions(cl) ==
    [ shm_name |-> IF cl.shm_arg.given THEN cl.shm_arg.text
                   ELSE IF cl.shm_env.given THEN cl.shm_env.text
                   ELSE "",
      width    |-> IF cl.width_arg.given THEN ParseUintEnv(cl.width_arg)
                   ELSE ParseUintEnv(cl.width_env),
      height   |-> IF cl.height_arg.given THEN ParseUintEnv(cl.height_arg)
                   ELSE ParseUintEnv(cl.height_env),
      rotation_degrees |->
                   IF cl.rotation_arg.given THEN ParseUintEnv(cl.rotation_arg)
                   ELSE ParseUintEnv(cl.rotation_env) ]

\* The name the daemon's unit file and the frame generator use.
ShmName == "/ili9488_rgb666"

\* A command line that names the arena, the panel and a rotation.
CmdlineFor(width, height, rotation) ==
    [ shm_env |-> Absent, shm_arg |-> Given(ShmName),
      width_env |-> Absent, width_arg |-> Given(DecimalText(width)),
      height_env |-> Absent, height_arg |-> Given(DecimalText(height)),
      rotation_env |-> Absent, rotation_arg |-> Given(DecimalText(rotation)) ]

\* main() has parsed the command line of a daemon that runs the panel with
\* the rotation in force.
StartQuiescent ==
    /\ cmdline = CmdlineFor(OptionsWidth, OptionsHeight, rotation_degrees)
    /\ options = ParseOptions(cmdline)

\* ------------------------------------------------- constructor state
\* ILI9488Framebuffer's constructor: no descriptor, no mapping, no handle.
AllocConstructed ==
    /\ use_mailbox_ = FALSE /\ using_cma_ = FALSE
    /\ dma_heap_fd_ = FALSE
    /\ dmabuf_fd_ = [i \in Slots |-> FALSE]
    /\ cma_map_ = [i \in Slots |-> FALSE]
    /\ vcsm_fd_ = FALSE
    /\ mailbox_fd_ = FALSE /\ mem_fd_ = FALSE
    /\ mailbox_handle_ = [i \in Slots |-> FALSE]
    /\ mailbox_map_ = [i \in Slots |-> FALSE]
    /\ cpu_buffers_ = FALSE
    /\ alloc_i = 0
    /\ attempts = << >>
    /\ sys_log = << >>
    /\ buffer_size_ = 0

\* ILI9488Transport after initialize(): D/C was requested as an output with
\* default value 1; no transfer has been made.
SpiIdle ==
    /\ spiPc = "loop"
    /\ spi_length = 0
    /\ dc_line = TRUE
    /\ wire = << >>
    /\ offset = 0
    /\ last_result = "none"
    /\ transfers = 0
    /\ current_speed_hz_ = spi_hz
    /\ reset_writes = << FALSE, TRUE >>

SpiQuiescent ==
    /\ SpiIdle
    /\ spi_config = [width |-> OptionsWidth, height |-> OptionsHeight,
                     pixel_format |-> kIli9488PixelFormatRgb666,
                     transfer_chunk_bytes |-> DriverChunkBytes,
                     speed_hz |-> spi_hz, init_speed_hz |-> spi_init_hz]

\* No rotator has been called.
RotQuiescent ==
    /\ rot_width = 0 /\ rot_height = 0
    /\ pending_cpu = << >> /\ back_cpu = << >>
    /\ rotPc = "off"
    /\ rotated = FALSE
    /\ once_cpu = << >> /\ twice_cpu = << >>
    /\ pix_rotation = 0
    /\ pixPc = "off"
    /\ front_cpu = << >>
    /\ dma_cs = "idle"
    /\ rot_panel = << >>

\* No driver frame call has been made (zero-copy, double-buffered driver).
DrvQuiescent ==
    /\ zero_copy_mode_ = TRUE
    /\ use_double_buffer = TRUE
    /\ frontBuffer_ = << >>
    /\ backBuffer_ = << >>
    /\ drv_log = << >>

\* The mapping is not followed separately.
LifeQuiescent ==
    /\ triple_buffer_base_ = FALSE
    /\ region_mapped = FALSE
    /\ shm_sys = [sem_destroy |-> 0, munmap |-> 0, close |-> 0]
    /\ released_access = FALSE
    /\ lifePc = "constructed"

\* The parts of the program that the frame-loop specification does not step.
AuxQuiescent ==
    /\ AllocConstructed /\ allocPc = "idle"
    /\ op_log = << >> /\ snap_log = << >>
    /\ SpiQuiescent
    /\ RotQuiescent
    /\ DrvQuiescent
    /\ LifeQuiescent
    /\ StartQuiescent

\* ------------------------------------------------------------------ Init
\* State after ILI9488Framebuffer's constructor and a successful
\* driver.initialize() with a DMA-capable pool; the arena is not created yet.
Init ==
    /\ rotation_degrees \in RotationChoices
    /\ dma_available_ \in BOOLEAN
    /\ mailbox_bus_addr_ \in BusAddrChoices
    /\ pool_map = [i \in Slots |-> TRUE]
    /\ front_index_ = 0 /\ back_index_ = 1 /\ pending_index_ = 2
    /\ triple_buffer_header_ = FALSE
    /\ triple_buffer_shm_fd_ = FALSE
    /\ shm_name_ = FALSE
    /\ dma_buf = [i \in Slots |-> ZeroFrame]
    /\ shm_linked = FALSE
    /\ header = ZeroHeader
    /\ pending_sem = 0
    /\ sem_destroyed = FALSE
    /\ shm_slots = [i \in Slots |-> ZeroFrame]
    /\ g_running = 1
    /\ daemonPc = "create"
    /\ last_frame_counter = 0
    /\ current_frame_counter = 0
    /\ storeStep = 0
    /\ dma_polls = 0
    /\ consumed = 0
    /\ panel = ZeroFrame
    /\ producerPc = "off"
    /\ pending_buf = 0
    /\ frame_num = 0
    /\ completed = 0
    /\ AuxQuiescent

\* ------------------------------------------------- arena: pure operators
\* rotateBufferIndices, the daemon-local part:
\* (front,back,pending) <- (pending,front,back).
RotatedIndices_noTemp(f, b, p) == [front |-> b, back |-> f, pending |-> b]

RotatedIndices(f, b, p) == [front |-> p, back |-> f, pending |-> b]

SwappedIndices_withPending(f, b, p) == [front |-> p, back |-> b, pending |-> f]

\* swapBackAndFront, the daemon-local part: std::swap(back_index_, front_index_).
SwappedIndices(f, b, p) == [front |-> b, back |-> f, pending |-> p]

\* The header fields rotateBufferIndices stores, in program order.
rotateStores ==
    << "front_index", "back_index", "pending_index",
       "buffer_a_bus_addr", "buffer_b_bus_addr", "buffer_c_bus_addr" >>

swapStores_indicesOnly == << "back_index", "front_index" >>

\* The header fields swapBackAndFront stores, in program order.
swapStores ==
    << "back_index", "front_index", "buffer_a_bus_addr", "buffer_b_bus_addr" >>

\* The value either operation stores into a header field.
HeaderStoreValue(field) ==
    CASE field = "front_index"       -> front_index_
      [] field = "back_index"        -> back_index_
      [] field = "pending_index"     -> pending_index_
      [] field = "buffer_a_bus_addr" -> mailbox_bus_addr_[front_index_]
      [] field = "buffer_b_bus_addr" -> mailbox_bus_addr_[back_index_]
      [] field = "buffer_c_bus_addr" -> mailbox_bus_addr_[pending_index_]

\* `current_frame_counter != last_frame_counter` of the frame loop.
CounterChanged_always(cur, last) == TRUE

CounterChanged_never(cur, last) == FALSE

CounterChanged(cur, last) == cur # last

\* The header as createTripleBufferSharedMemory(name, width, height) leaves
\* it on its success path.
CreatedHeader_swappedGeometry(width, height) ==
    [ magic |-> Magic, version |-> Version,
      width |-> height, height |-> width,
      bytes_per_pixel |-> BytesPerPixel,
      buffer_a_bus_addr |-> mailbox_bus_addr_[0],
      buffer_b_bus_addr |-> mailbox_bus_addr_[1],
      buffer_c_bus_addr |-> mailbox_bus_addr_[2],
      front_index |-> 0, back_index |-> 1, pending_index |-> 2,
      frame_counter |-> 0, rotation_degrees |-> 0,
      daemon_ready |-> 0, app_connected |-> 0 ]

CreatedHeader(width, height) ==
    [ magic |-> Magic, version |-> Version,
      width |-> width, height |-> height,
      bytes_per_pixel |-> BytesPerPixel,
      buffer_a_bus_addr |-> mailbox_bus_addr_[0],
      buffer_b_bus_addr |-> mailbox_bus_addr_[1],
      buffer_c_bus_addr |-> mailbox_bus_addr_[2],
      front_index |-> 0, back_index |-> 1, pending_index |-> 2,
      frame_counter |-> 0, rotation_degrees |-> 0,
      daemon_ready |-> 0, app_connected |-> 0 ]

\* main(): the producer's framebuffer has the panel's axes swapped for a
\* rotation of 90 or 270 degrees.
swap_axes == rotation_degrees = 90 \/ rotation_degrees = 270

framebuffer_width == IF swap_axes THEN OptionsHeight ELSE OptionsWidth

framebuffer_height == IF swap_axes THEN OptionsWidth ELSE OptionsHeight

\* ------------------------------------------------------- daemon: actions
\* SIGINT / SIGTERM delivered to the daemon process.
HandleSignal ==
    /\ daemonPc # "exited"
    /\ g_running = 1
    /\ g_running' = 0
    /\ UNCHANGED << auxVars, configVars, fbIndexVars, fbShmVars, dma_buf, shmVars,
                    daemonPc, last_frame_counter, current_frame_counter,
                    storeStep, dma_polls, consumed, panel, producerVars >>

\* createTripleBufferSharedMemory on its success path, followed by the two
\* header stores main() makes before the frame loop.
CreateArena ==
    /\ daemonPc = "create"
    /\ \A i \in Slots : pool_map[i]
    /\ shm_linked' = TRUE
    /\ triple_buffer_header_' = TRUE
    /\ triple_buffer_shm_fd_' = TRUE
    /\ shm_name_' = TRUE
    /\ front_index_' = 0 /\ back_index_' = 1 /\ pending_index_' = 2
    /\ header' = [ CreatedHeader(framebuffer_width, framebuffer_height)
                     EXCEPT !.rotation_degrees = rotation_degrees,
                            !.daemon_ready = 1 ]
    /\ pending_sem' = SemInitValue
    /\ sem_destroyed' = FALSE
    /\ dma_buf' = [i \in Slots |-> ZeroFrame]
    /\ shm_slots' = [i \in Slots |-> ZeroFrame]
    /\ daemonPc' = "loop"
    /\ UNCHANGED << auxVars, configVars, g_running, last_frame_counter,
                    current_frame_counter, storeStep, dma_polls, consumed,
                    panel, producerVars >>

\* `while (g_running)`.
DaemonLoopCheck ==
    /\ daemonPc = "loop"
    /\ daemonPc' = IF g_running = 1 THEN "trywait" ELSE "cleanup"
    /\ UNCHANGED << auxVars, configVars, fbIndexVars, fbShmVars, dma_buf, shmVars,
                    g_running, last_frame_counter, current_frame_counter,
                    storeStep, dma_polls, consumed, panel, producerVars >>

DaemonTryWait_spin ==
    /\ daemonPc = "trywait"
    /\ IF pending_sem > 0
         THEN /\ pending_sem' = pending_sem - 1
              /\ daemonPc' = "locked"
         ELSE /\ pending_sem' = pending_sem
              /\ daemonPc' = "trywait"
    /\ UNCHANGED << auxVars, configVars, fbIndexVars, fbShmVars, dma_buf,
                    shm_linked, header, sem_destroyed, shm_slots,
                    g_running, last_frame_counter, current_frame_counter,
                    storeStep, dma_polls, consumed, panel, producerVars >>

DaemonTryWait_blocking ==
    /\ daemonPc = "trywait"
    /\ pending_sem > 0
    /\ pending_sem' = pending_sem - 1
    /\ daemonPc' = "locked"
    /\ UNCHANGED << auxVars, configVars, fbIndexVars, fbShmVars, dma_buf,
                    shm_linked, header, sem_destroyed, shm_slots,
                    g_running, last_frame_counter, current_frame_counter,
                    storeStep, dma_polls, consumed, panel, producerVars >>

\* `if (sem_trywait(&header->pending_sem) != 0) { sleep 1 ms; continue; }`.
DaemonTryWait ==
    /\ daemonPc = "trywait"
    /\ IF pending_sem > 0
         THEN /\ pending_sem' = pending_sem - 1
              /\ daemonPc' = "locked"
         ELSE /\ pending_sem' = pending_sem
              /\ daemonPc' = "loop"
    /\ UNCHANGED << auxVars, configVars, fbIndexVars, fbShmVars, dma_buf,
                    shm_linked, header, sem_destroyed, shm_slots,
                    g_running, last_frame_counter, current_frame_counter,
                    storeStep, dma_polls, consumed, panel, producerVars >>

\* getPendingBuffer / getBackBuffer null check, then the read of
\* header->frame_counter and its comparison with last_frame_counter.
\* On a null buffer the daemon posts and breaks out of the loop.
DaemonCheckCounter ==
    /\ daemonPc = "locked"
    /\ IF ~pool_map[pending_index_] \/ ~pool_map[back_index_]
         THEN /\ pending_sem' = pending_sem + 1
              /\ daemonPc' = "cleanup"
              /\ UNCHANGED << current_frame_counter, last_frame_counter >>
         ELSE /\ pending_sem' = pending_sem
              /\ current_frame_counter' = header.frame_counter
              /\ IF CounterChanged(header.frame_counter, last_frame_counter)
                   THEN /\ daemonPc' = "memcpy1"
                        /\ UNCHANGED last_frame_counter
                   ELSE /\ daemonPc' = "post"
                        /\ last_frame_counter' = last_frame_counter
    /\ UNCHANGED << auxVars, configVars, fbIndexVars, fbShmVars, dma_buf,
                    shm_linked, header, sem_destroyed, shm_slots,
                    g_running, storeStep, dma_polls, consumed, panel,
                    producerVars >>

\* memcpy(pending_cpu, shm_pending, framebuffer_bytes): first half.
DaemonMemcpy1 ==
    /\ daemonPc = "memcpy1"
    /\ dma_buf' = [dma_buf EXCEPT ![pending_index_][1] = shm_slots[pending_index_][1]]
    /\ daemonPc' = "memcpy2"
    /\ UNCHANGED << auxVars, configVars, fbIndexVars, fbShmVars, shmVars,
                    g_running, last_frame_counter, current_frame_counter,
                    storeStep, dma_polls, consumed, panel, producerVars >>

DaemonMemcpy2_noRecord ==
    /\ daemonPc = "memcpy2"
    /\ dma_buf' = [dma_buf EXCEPT ![pending_index_][2] = shm_slots[pending_index_][2]]
    /\ last_frame_counter' = last_frame_counter
    /\ consumed' = consumed + 1
    /\ daemonPc' = "post"
    /\ UNCHANGED << auxVars, configVars, fbIndexVars, fbShmVars, shmVars,
                    g_running, current_frame_counter,
                    storeStep, dma_polls, panel, producerVars >>

\* memcpy, second half, then `last_frame_counter = current_frame_counter`.
DaemonMemcpy2 ==
    /\ daemonPc = "memcpy2"
    /\ dma_buf' = [dma_buf EXCEPT ![pending_index_][2] = shm_slots[pending_index_][2]]
    /\ last_frame_counter' = current_frame_counter
    /\ consumed' = consumed + 1
    /\ daemonPc' = "post"
    /\ UNCHANGED << auxVars, configVars, fbIndexVars, fbShmVars, shmVars,
                    g_running, current_frame_counter,
                    storeStep, dma_polls, panel, producerVars >>

DaemonPost_skipped ==
    /\ daemonPc = "post"
    /\ pending_sem' = pending_sem
    /\ daemonPc' = "branch"
    /\ UNCHANGED << auxVars, configVars, fbIndexVars, fbShmVars, dma_buf,
                    shm_linked, header, sem_destroyed, shm_slots,
                    g_running, last_frame_counter, current_frame_counter,
                    storeStep, dma_polls, consumed, panel, producerVars >>

\* sem_post(&header->pending_sem) that closes the critical section.
DaemonPost ==
    /\ daemonPc = "post"
    /\ pending_sem' = pending_sem + 1
    /\ daemonPc' = "branch"
    /\ UNCHANGED << auxVars, configVars, fbIndexVars, fbShmVars, dma_buf,
                    shm_linked, header, sem_destroyed, shm_slots,
                    g_running, last_frame_counter, current_frame_counter,
                    storeStep, dma_polls, consumed, panel, producerVars >>

\* `if (header->rotation_degrees == 0)`: on 0 degrees the daemon-local part of
\* rotateBufferIndices; otherwise the choice between the DMA rotator (both
\* header bus addresses non-zero) and the CPU rotator.
DaemonBranch ==
    /\ daemonPc = "branch"
    /\ IF header.rotation_degrees = 0
         THEN LET r == RotatedIndices(front_index_, back_index_, pending_index_) IN
              /\ front_index_' = r.front
              /\ back_index_' = r.back
              /\ pending_index_' = r.pending
              /\ IF triple_buffer_header_
                   THEN daemonPc' = "rot_store" /\ storeStep' = 1
                   ELSE daemonPc' = "transmit" /\ storeStep' = 0
         ELSE /\ UNCHANGED fbIndexVars
              /\ storeStep' = 0
              /\ IF header.buffer_c_bus_addr # 0 /\ header.buffer_b_bus_addr # 0
                   THEN daemonPc' = "dma_start"
                   ELSE daemonPc' = "cpu_rotate"
    /\ UNCHANGED << auxVars, configVars, fbShmVars, dma_buf, shmVars,
                    g_running, last_frame_counter, current_frame_counter,
                    dma_polls, consumed, panel, producerVars >>

\* One header store of rotateBufferIndices or swapBackAndFront; the stores
\* are plain stores to the shared region, made one at a time.
DaemonHeaderStore ==
    /\ daemonPc \in {"rot_store", "swap_store"}
    /\ LET stores == IF daemonPc = "rot_store" THEN rotateStores ELSE swapStores
           field  == stores[storeStep]
       IN  /\ header' = [header EXCEPT ![field] = HeaderStoreValue(field)]
           /\ IF storeStep = Len(stores)
                THEN daemonPc' = "transmit" /\ storeStep' = 0
                ELSE daemonPc' = daemonPc /\ storeStep' = storeStep + 1
    /\ UNCHANGED << auxVars, configVars, fbIndexVars, fbShmVars, dma_buf,
                    shm_linked, pending_sem, sem_destroyed, shm_slots,
                    g_running, last_frame_counter, current_frame_counter,
                    dma_polls, consumed, panel, producerVars >>

\* rotateRgb666DmaMode: without the DMA controller it reports failure at once,
\* otherwise it programs the channel and starts the transfer.
DmaStart ==
    /\ daemonPc = "dma_start"
    /\ daemonPc' = IF dma_available_ THEN "dma_wait" ELSE "cpu_rotate"
    /\ dma_polls' = 0
    /\ UNCHANGED << auxVars, configVars, fbIndexVars, fbShmVars, dma_buf, shmVars,
                    g_running, last_frame_counter, current_frame_counter,
                    storeStep, consumed, panel, producerVars >>

\* configureAndWaitDma's polling loop: the transfer completes, or CS.ACTIVE is
\* still set and the loop sleeps, or the deadline has passed and the channel
\* is reset and failure reported.
DmaPoll ==
    /\ daemonPc = "dma_wait"
    /\ \/ /\ dma_buf' = [dma_buf EXCEPT ![back_index_] = dma_buf[pending_index_]]
          /\ daemonPc' = "swap"
          /\ dma_polls' = 0
       \/ /\ dma_polls < DmaDeadlinePolls
          /\ dma_polls' = dma_polls + 1
          /\ UNCHANGED << dma_buf, daemonPc >>
       \/ /\ dma_polls >= DmaDeadlinePolls
          /\ daemonPc' = "cpu_rotate"
          /\ dma_polls' = 0
          /\ UNCHANGED dma_buf
    /\ UNCHANGED << auxVars, configVars, fbIndexVars, fbShmVars, shmVars,
                    g_running, last_frame_counter, current_frame_counter,
                    storeStep, consumed, panel, producerVars >>

\* `if (!rotated) RotateRgb666(pending_cpu, back_cpu, ...)`.
DaemonCpuRotate ==
    /\ daemonPc = "cpu_rotate"
    /\ dma_buf' = [dma_buf EXCEPT ![back_index_] = dma_buf[pending_index_]]
    /\ daemonPc' = "swap"
    /\ UNCHANGED << auxVars, configVars, fbIndexVars, fbShmVars, shmVars,
                    g_running, last_frame_counter, current_frame_counter,
                    storeStep, dma_polls, consumed, panel, producerVars >>

\* swapBackAndFront, the daemon-local part.
DaemonSwap ==
    /\ daemonPc = "swap"
    /\ LET r == SwappedIndices(front_index_, back_index_, pending_index_) IN
       /\ front_index_' = r.front
       /\ back_index_' = r.back
       /\ pending_index_' = r.pending
    /\ IF triple_buffer_header_
         THEN daemonPc' = "swap_store" /\ storeStep' = 1
         ELSE daemonPc' = "transmit" /\ storeStep' = 0
    /\ UNCHANGED << auxVars, configVars, fbShmVars, dma_buf, shmVars,
                    g_running, last_frame_counter, current_frame_counter,
                    dma_polls, consumed, panel, producerVars >>

\* transferDma(getFrontBuffer(), display_bytes), then the pacing sleep.
DaemonTransmit ==
    /\ daemonPc = "transmit"
    /\ panel' = dma_buf[front_index_]
    /\ daemonPc' = "loop"
    /\ UNCHANGED << auxVars, configVars, fbIndexVars, fbShmVars, dma_buf, shmVars,
                    g_running, last_frame_counter, current_frame_counter,
                    storeStep, dma_polls, consumed, producerVars >>

\* cleanupSharedMemory, then `return 0`.
cleanupSharedMemory ==
    /\ daemonPc = "cleanup"
    /\ sem_destroyed' = (sem_destroyed \/ triple_buffer_header_)
    /\ triple_buffer_header_' = FALSE
    /\ triple_buffer_shm_fd_' = FALSE
    /\ shm_name_' = FALSE
    /\ daemonPc' = "exited"
    /\ UNCHANGED << auxVars, configVars, fbIndexVars, dma_buf,
                    shm_linked, header, pending_sem, shm_slots,
                    g_running, last_frame_counter, current_frame_counter,
                    storeStep, dma_polls, consumed, panel, producerVars >>

DaemonNext ==
    \/ CreateArena
    \/ DaemonLoopCheck
    \/ DaemonTryWait
    \/ DaemonCheckCounter
    \/ DaemonMemcpy1
    \/ DaemonMemcpy2
    \/ DaemonPost
    \/ DaemonBranch
    \/ DaemonHeaderStore
    \/ DmaStart
    \/ DmaPoll
    \/ DaemonCpuRotate
    \/ DaemonSwap
    \/ DaemonTransmit
    \/ cleanupSharedMemory

\* ----------------------------------------------------- producer: actions
\* shm_open + mmap + magic check; without the object or with a bad magic the
\* generator returns 1.
ProducerAttach ==
    /\ producerPc = "off"
    /\ producerPc' = IF shm_linked /\ header.magic = Magic THEN "loop" ELSE "failed"
    /\ UNCHANGED << auxVars, configVars, fbIndexVars, fbShmVars, dma_buf, shmVars,
                    daemonVars, pending_buf, frame_num, completed >>

\* `while (time(NULL) - start < duration)`: the loop goes on.
ProducerLoop ==
    /\ producerPc = "loop"
    /\ frame_num < MaxFrames
    /\ producerPc' = "trywait"
    /\ UNCHANGED << auxVars, configVars, fbIndexVars, fbShmVars, dma_buf, shmVars,
                    daemonVars, pending_buf, frame_num, completed >>

\* The duration has elapsed: munmap, close, return 0.
ProducerFinish ==
    /\ producerPc = "loop"
    /\ producerPc' = "done"
    /\ UNCHANGED << auxVars, configVars, fbIndexVars, fbShmVars, dma_buf, shmVars,
                    daemonVars, pending_buf, frame_num, completed >>

ProducerTryWait_ignoreResult ==
    /\ producerPc = "trywait"
    /\ pending_sem' = IF pending_sem > 0 THEN pending_sem - 1 ELSE pending_sem
    /\ producerPc' = "acquired"
    /\ UNCHANGED << auxVars, configVars, fbIndexVars, fbShmVars, dma_buf,
                    shm_linked, header, sem_destroyed, shm_slots,
                    daemonVars, pending_buf, frame_num, completed >>

\* `if (sem_trywait(&header->pending_sem) == 0) { ... }`; on failure the
\* frame is dropped and the generator goes to its usleep.
ProducerTryWait ==
    /\ producerPc = "trywait"
    /\ IF pending_sem > 0
         THEN /\ pending_sem' = pending_sem - 1
              /\ producerPc' = "acquired"
         ELSE /\ pending_sem' = pending_sem
              /\ producerPc' = "sleep"
    /\ UNCHANGED << auxVars, configVars, fbIndexVars, fbShmVars, dma_buf,
                    shm_linked, header, sem_destroyed, shm_slots,
                    daemonVars, pending_buf, frame_num, completed >>

\* pending_buf = map + sizeof(header) + header->pending_index * buffer_size.
ProducerReadPending ==
    /\ producerPc = "acquired"
    /\ pending_buf' = header.pending_index
    /\ producerPc' = "write1"
    /\ UNCHANGED << auxVars, configVars, fbIndexVars, fbShmVars, dma_buf, shmVars,
                    daemonVars, frame_num, completed >>

\* The pixel loops, first half of the frame; the pattern is a function of
\* frame_num, frame number frame_num + 1.
ProducerWrite1 ==
    /\ producerPc = "write1"
    /\ shm_slots' = [shm_slots EXCEPT ![pending_buf][1] = frame_num + 1]
    /\ producerPc' = "write2"
    /\ UNCHANGED << auxVars, configVars, fbIndexVars, fbShmVars, dma_buf,
                    shm_linked, header, pending_sem, sem_destroyed,
                    daemonVars, pending_buf, frame_num, completed >>

\* The pixel loops, second half of the frame.
ProducerWrite2 ==
    /\ producerPc = "write2"
    /\ shm_slots' = [shm_slots EXCEPT ![pending_buf][2] = frame_num + 1]
    /\ producerPc' = "inc"
    /\ UNCHANGED << auxVars, configVars, fbIndexVars, fbShmVars, dma_buf,
                    shm_linked, header, pending_sem, sem_destroyed,
                    daemonVars, pending_buf, frame_num, completed >>

\* header->frame_counter++; frame_num++.
ProducerIncrement ==
    /\ producerPc = "inc"
    /\ header' = [header EXCEPT !.frame_counter = header.frame_counter + 1]
    /\ frame_num' = frame_num + 1
    /\ producerPc' = "post"
    /\ UNCHANGED << auxVars, configVars, fbIndexVars, fbShmVars, dma_buf,
                    shm_linked, pending_sem, sem_destroyed, shm_slots,
                    daemonVars, pending_buf, completed >>

\* sem_post(&header->pending_sem).
ProducerPost ==
    /\ producerPc = "post"
    /\ pending_sem' = pending_sem + 1
    /\ completed' = completed + 1
    /\ producerPc' = "sleep"
    /\ UNCHANGED << auxVars, configVars, fbIndexVars, fbShmVars, dma_buf,
                    shm_linked, header, sem_destroyed, shm_slots,
                    daemonVars, pending_buf, frame_num >>

\* usleep(10000).
ProducerSleep ==
    /\ producerPc = "sleep"
    /\ producerPc' = "loop"
    /\ UNCHANGED << auxVars, configVars, fbIndexVars, fbShmVars, dma_buf, shmVars,
                    daemonVars, pending_buf, frame_num, completed >>

ProducerNext ==
    \/ ProducerAttach
    \/ ProducerLoop
    \/ ProducerFinish
    \/ ProducerTryWait
    \/ ProducerReadPending
    \/ ProducerWrite1
    \/ ProducerWrite2
    \/ ProducerIncrement
    \/ ProducerPost
    \/ ProducerSleep

\* --------------------------------------------------------- specifications
Next == HandleSignal \/ DaemonNext \/ ProducerNext

Spec == Init /\ [][Next]_vars

\* The daemon process is scheduled: whenever it has a step it eventually
\* takes one.  Nothing is assumed about the producer or about signals.
LiveSpec == Spec /\ WF_vars(DaemonNext)

\* ------------------------------------------------------------ properties
\* The daemon is between its successful sem_trywait and its sem_post.
DaemonHolds == daemonPc \in {"locked", "memcpy1", "memcpy2", "post"}

\* The producer is between its successful sem_trywait and its sem_post.
ProducerHolds == producerPc \in {"acquired", "write1", "write2", "inc", "post"}

\* The producer is between its read of pending_index and its sem_post.
ProducerWriting == producerPc \in {"write1", "write2", "inc", "post"}

\* The arena exists and no rotateBufferIndices / swapBackAndFront call is
\* part-way through.
ArenaAtRest ==
    /\ header.magic = Magic
    /\ daemonPc \notin {"create", "rot_store", "swap_store"}

\* Both halves of a buffer come from the same frame.
Complete(f) == f[1] = f[2]

\* C1: the daemon and the producer never hold pending_sem at the same time,
\* and the semaphore value stays in {0,1}.
C1_SemaphoreMutex ==
    /\ ~(DaemonHolds /\ ProducerHolds)
    /\ pending_sem \in {0, 1}

\* The daemon holds the semaphore and the producer's first trywait failed.
C1_Witness ==
    /\ DaemonHolds
    /\ producerPc = "sleep" /\ frame_num = 0
    /\ pending_sem = 0

\* C2: after creation and after every completed rotateBufferIndices or
\* swapBackAndFront, the daemon-local indices and the header indices are each
\* a permutation of {0,1,2}.
C2_IndexPermutation ==
    ArenaAtRest =>
        /\ {front_index_, back_index_, pending_index_} = Slots
        /\ {header.front_index, header.back_index, header.pending_index} = Slots

\* Two rotations have completed: (0,1,2) -> (2,0,1) -> (1,2,0).
C2_Witness ==
    /\ daemonPc = "transmit"
    /\ << header.front_index, header.back_index, header.pending_index >> = << 1, 2, 0 >>

\* C3: after creation and after every completed rotateBufferIndices or
\* swapBackAndFront, the header bus-address slots a, b, c hold the bus
\* addresses of the front, back and pending buffers.
C3_BusAddrSlots ==
    ArenaAtRest =>
        /\ header.buffer_a_bus_addr = mailbox_bus_addr_[front_index_]
        /\ header.buffer_b_bus_addr = mailbox_bus_addr_[back_index_]
        /\ header.buffer_c_bus_addr = mailbox_bus_addr_[pending_index_]

\* A swapBackAndFront has completed on buffers with distinct bus addresses.
C3_Witness ==
    /\ daemonPc = "transmit"
    /\ header.rotation_degrees # 0
    /\ front_index_ = 1 /\ back_index_ = 0
    /\ mailbox_bus_addr_[0] # mailbox_bus_addr_[1]
    /\ header.buffer_a_bus_addr = mailbox_bus_addr_[1]

\* C4: throughout a producer write the slot being written is the slot of the
\* current pending index, never the slot that is currently front or back.
C4_ProducerWritesOnlyPending ==
    ProducerWriting =>
        /\ pending_buf = header.pending_index
        /\ pending_buf \notin {header.front_index, header.back_index}

C6_NeverStalls ==
    /\ daemonPc # "exited" => ENABLED DaemonNext
    /\ producerPc \notin {"off", "failed", "done"} => ENABLED ProducerNext
    /\ daemonPc = "trywait" => ENABLED DaemonTryWait
    /\ producerPc = "trywait" => ENABLED ProducerTryWait

\* The daemon is about to sem_trywait while the producer holds the semaphore.
C6_Witness ==
    /\ daemonPc = "trywait"
    /\ ProducerHolds
    /\ pending_sem = 0

C10_CleanupUnlinks ==
    daemonPc = "exited" =>
        /\ sem_destroyed
        /\ ~triple_buffer_header_
        /\ ~shm_linked

\* =====================================================================
\* Buffer pool: ILI9488Framebuffer::initialize, its three strategies, and
\* main()'s use of the pool up to the frame loop.
\* Every acquisition from / release to the OS or the VideoCore is appended
\* to sys_log, so leaks and double releases can be read off the log.
\* =====================================================================

\* The frame-loop part of the program before main() has created the arena.
FrameLoopQuiescent ==
    /\ rotation_degrees = 0
    /\ dma_available_ = FALSE
    /\ front_index_ = 0 /\ back_index_ = 1 /\ pending_index_ = 2
    /\ triple_buffer_header_ = FALSE
    /\ triple_buffer_shm_fd_ = FALSE
    /\ shm_name_ = FALSE
    /\ dma_buf = [i \in Slots |-> ZeroFrame]
    /\ shm_linked = FALSE
    /\ header = ZeroHeader
    /\ pending_sem = 0
    /\ sem_destroyed = FALSE
    /\ shm_slots = [i \in Slots |-> ZeroFrame]
    /\ g_running = 1
    /\ daemonPc = "create"
    /\ last_frame_counter = 0
    /\ current_frame_counter = 0
    /\ storeStep = 0
    /\ dma_polls = 0
    /\ consumed = 0
    /\ panel = ZeroFrame
    /\ producerPc = "off"
    /\ pending_buf = 0
    /\ frame_num = 0
    /\ completed = 0

\* ... and before driver.initialize() has adopted a pool.
MainQuiescent ==
    /\ FrameLoopQuiescent
    /\ mailbox_bus_addr_ = [i \in Slots |-> 0]
    /\ pool_map = [i \in Slots |-> FALSE]

\* Main variables the pool never touches (it writes mailbox_bus_addr_).
allocRest == << rotation_degrees, dma_available_, pool_map,
                fbIndexVars, fbShmVars, dma_buf, shmVars, daemonVars,
                producerVars, apiVars, spiVars, rotVars, startVars, drvVars, lifeVars >>

\* ... and buffer_size_, which only initialize() and
\* createTripleBufferSharedMemory assign.
allocFrame == << allocRest, buffer_size_ >>

\* `constexpr size_t kPageAlign = 4096;`, the alignment asked of the mailbox.
kPageAlign == 4096

Acquire(r) == << "acquire", r >>

Release(r) == << "release", r >>

\* One pool resource: a descriptor, a mapping, a mailbox handle or its lock.
Res(kind, i) == [kind |-> kind, slot |-> i]

\* The strategy a resource kind belongs to.
StrategyOf(kind) ==
    IF kind \in {"dma_heap_fd", "dmabuf_fd", "cma_map", "vcsm_fd"}
    THEN "cma" ELSE "mailbox"

StartAttempt(log, s) == Append(log, [strategy |-> s, result |-> "running"])

EndAttempt(log, r) == [log EXCEPT ![Len(log)].result = r]

\* The munmap / close loop over buffers j..n-1, each guarded by its field:
\* the roll-back loops of allocateCmaBuffers and the loop of releaseCmaBuffers.
RECURSIVE CmaReleaseOps_unguarded(_, _)
CmaReleaseOps_unguarded(j, n) ==
    IF j >= n THEN << >>
    ELSE << Release(Res("cma_map", j)), Release(Res("dmabuf_fd", j)) >>
         \o CmaReleaseOps_unguarded(j + 1, n)

RECURSIVE CmaReleaseOps(_, _)
CmaReleaseOps(j, n) ==
    IF j >= n THEN << >>
    ELSE (IF cma_map_[j] THEN << Release(Res("cma_map", j)) >> ELSE << >>)
         \o (IF dmabuf_fd_[j] THEN << Release(Res("dmabuf_fd", j)) >> ELSE << >>)
         \o CmaReleaseOps(j + 1, n)

\* mailboxUnlock(handle) / mailboxRelease(handle): silently nothing when the
\* mailbox descriptor is closed.
MailboxUnlockOps(i) ==
    IF mailbox_fd_ THEN << Release(Res("mailbox_lock", i)) >> ELSE << >>

MailboxReleaseOps(i) ==
    IF mailbox_fd_ THEN << Release(Res("mailbox_handle", i)) >> ELSE << >>

\* The loop of releaseMailboxBuffers over buffers j..2.
RECURSIVE MailboxLoopOps(_)
MailboxLoopOps(j) ==
    IF j >= 3 THEN << >>
    ELSE (IF mailbox_map_[j] THEN << Release(Res("mailbox_map", j)) >> ELSE << >>)
         \o (IF mailbox_handle_[j]
             THEN MailboxUnlockOps(j) \o MailboxReleaseOps(j) ELSE << >>)
         \o MailboxLoopOps(j + 1)

\* releaseMailboxBuffers as a whole: the loop, then the two descriptors.
releaseMailboxBuffersOps ==
    MailboxLoopOps(0)
    \o (IF mailbox_fd_ THEN << Release(Res("mailbox_fd", 0)) >> ELSE << >>)
    \o (IF mem_fd_ THEN << Release(Res("mem_fd", 0)) >> ELSE << >>)

\* releaseCmaBuffers as a whole.
releaseCmaBuffersOps ==
    CmaReleaseOps(0, 3)
    \o (IF vcsm_fd_ THEN << Release(Res("vcsm_fd", 0)) >> ELSE << >>)
    \o (IF dma_heap_fd_ THEN << Release(Res("dma_heap_fd", 0)) >> ELSE << >>)

AllocInitialize_roundedUp ==
    /\ allocPc = "initialize"
    /\ buffer_size_' = ((options.width * options.height * 3 + kPageAlign - 1)
                            \div kPageAlign) * kPageAlign
    /\ \E enable_mailbox \in BOOLEAN :
         /\ use_mailbox_' = enable_mailbox
         /\ IF enable_mailbox
            THEN /\ allocPc' = "cma_open"
                 /\ attempts' = StartAttempt(attempts, "cma")
            ELSE /\ allocPc' = "cpu"
                 /\ UNCHANGED attempts
    /\ UNCHANGED << using_cma_, dma_heap_fd_, dmabuf_fd_, cma_map_, vcsm_fd_,
                    mailbox_fd_, mem_fd_, mailbox_handle_, mailbox_map_,
                    cpu_buffers_, alloc_i, sys_log, mailbox_bus_addr_,
                    allocRest >>

\* initialize(): `buffer_size_ = width_ * height_ * 3` from the panel size
\* main() passes in, `use_mailbox_ = enable_mailbox` and the branch on it.
\* enable_mailbox is false when the build lacks ILI9488_DMA_USE_GPU_MAILBOX.
AllocInitialize ==
    /\ allocPc = "initialize"
    /\ buffer_size_' = options.width * options.height * 3
    /\ \E enable_mailbox \in BOOLEAN :
         /\ use_mailbox_' = enable_mailbox
         /\ IF enable_mailbox
            THEN /\ allocPc' = "cma_open"
                 /\ attempts' = StartAttempt(attempts, "cma")
            ELSE /\ allocPc' = "cpu"
                 /\ UNCHANGED attempts
    /\ UNCHANGED << using_cma_, dma_heap_fd_, dmabuf_fd_, cma_map_, vcsm_fd_,
                    mailbox_fd_, mem_fd_, mailbox_handle_, mailbox_map_,
                    cpu_buffers_, alloc_i, sys_log, mailbox_bus_addr_,
                    allocRest >>

\* allocateCmaBuffers: OpenAnyDmaHeap.
CmaOpenHeap ==
    /\ allocPc = "cma_open"
    /\ \E opened \in BOOLEAN :
         IF opened
         THEN /\ dma_heap_fd_' = TRUE
              /\ sys_log' = Append(sys_log, Acquire(Res("dma_heap_fd", 0)))
              /\ alloc_i' = 0
              /\ allocPc' = "cma_buf"
              /\ UNCHANGED attempts
         ELSE /\ allocPc' = "mbox_open"
              /\ attempts' = StartAttempt(EndAttempt(attempts, "failed"), "mailbox")
              /\ UNCHANGED << dma_heap_fd_, sys_log, alloc_i >>
    /\ UNCHANGED << use_mailbox_, using_cma_, dmabuf_fd_, cma_map_, vcsm_fd_,
                    mailbox_fd_, mem_fd_, mailbox_handle_, mailbox_map_,
                    cpu_buffers_, mailbox_bus_addr_, allocFrame >>

\* allocateCmaBuffers: one iteration of the per-buffer loop, with the
\* roll-back of buffers 0..i-1 and of the heap descriptor on failure.
CmaAllocBuffer ==
    /\ allocPc = "cma_buf"
    /\ alloc_i < 3
    /\ \E outcome \in {"ok", "alloc_failed", "mmap_failed"} :
         IF outcome = "ok"
         THEN /\ dmabuf_fd_' = [dmabuf_fd_ EXCEPT ![alloc_i] = TRUE]
              /\ cma_map_' = [cma_map_ EXCEPT ![alloc_i] = TRUE]
              /\ mailbox_bus_addr_' = [mailbox_bus_addr_ EXCEPT ![alloc_i] = 0]
              /\ sys_log' = sys_log \o << Acquire(Res("dmabuf_fd", alloc_i)),
                                         Acquire(Res("cma_map", alloc_i)) >>
              /\ alloc_i' = alloc_i + 1
              /\ allocPc' = IF alloc_i = 2 THEN "cma_discover" ELSE "cma_buf"
              /\ UNCHANGED << dma_heap_fd_, attempts >>
         ELSE /\ sys_log' = sys_log
                   \o (IF outcome = "mmap_failed"
                       THEN << Acquire(Res("dmabuf_fd", alloc_i)),
                               Release(Res("dmabuf_fd", alloc_i)) >>
                       ELSE << >>)
                   \o CmaReleaseOps(0, alloc_i)
                   \o << Release(Res("dma_heap_fd", 0)) >>
              /\ dmabuf_fd_' = [j \in Slots |-> IF j <= alloc_i THEN FALSE
                                                ELSE dmabuf_fd_[j]]
              /\ cma_map_' = [j \in Slots |-> IF j < alloc_i THEN FALSE
                                              ELSE cma_map_[j]]
              /\ dma_heap_fd_' = FALSE
              /\ allocPc' = "mbox_open"
              /\ attempts' = StartAttempt(EndAttempt(attempts, "failed"), "mailbox")
              /\ UNCHANGED << alloc_i, mailbox_bus_addr_ >>
    /\ UNCHANGED << use_mailbox_, using_cma_, vcsm_fd_, mailbox_fd_, mem_fd_,
                    mailbox_handle_, mailbox_map_, cpu_buffers_, allocFrame >>

\* discoverCmaBusAddresses (its result is ignored), then initialize's
\* `using_cma_ = true; return true`.
CmaDiscover ==
    /\ allocPc = "cma_discover"
    /\ \E opened \in BOOLEAN, addrs \in BusAddrChoices :
         IF opened
         THEN /\ vcsm_fd_' = TRUE
              /\ sys_log' = Append(sys_log, Acquire(Res("vcsm_fd", 0)))
              /\ mailbox_bus_addr_' = addrs
         ELSE /\ addrs = [i \in Slots |-> 0]
              /\ UNCHANGED << vcsm_fd_, sys_log, mailbox_bus_addr_ >>
    /\ using_cma_' = TRUE
    /\ attempts' = EndAttempt(attempts, "ok")
    /\ allocPc' = "returned"
    /\ UNCHANGED << use_mailbox_, dma_heap_fd_, dmabuf_fd_, cma_map_,
                    mailbox_fd_, mem_fd_, mailbox_handle_, mailbox_map_,
                    cpu_buffers_, alloc_i, allocFrame >>

\* allocateMailboxBuffers: openMailboxDevice (/dev/vcio, then /dev/mem).
MailboxOpen ==
    /\ allocPc = "mbox_open"
    /\ \E outcome \in {"ok", "vcio_failed", "mem_failed"} :
         IF outcome = "ok"
         THEN /\ mailbox_fd_' = TRUE
              /\ mem_fd_' = TRUE
              /\ sys_log' = sys_log \o << Acquire(Res("mailbox_fd", 0)),
                                         Acquire(Res("mem_fd", 0)) >>
              /\ alloc_i' = 0
              /\ allocPc' = "mbox_buf"
              /\ UNCHANGED attempts
         ELSE /\ sys_log' = sys_log
                   \o (IF outcome = "mem_failed"
                       THEN << Acquire(Res("mailbox_fd", 0)),
                               Release(Res("mailbox_fd", 0)) >>
                       ELSE << >>)
              /\ allocPc' = "release_mailbox"
              /\ attempts' = EndAttempt(attempts, "failed")
              /\ UNCHANGED << mailbox_fd_, mem_fd_, alloc_i >>
    /\ UNCHANGED << use_mailbox_, using_cma_, dma_heap_fd_, dmabuf_fd_,
                    cma_map_, vcsm_fd_, mailbox_handle_, mailbox_map_,
                    cpu_buffers_, mailbox_bus_addr_, allocFrame >>

\* allocateMailboxBuffers: one iteration of the per-buffer loop (allocate,
\* lock, map).  A failure releases only the handle of this iteration; after
\* the third buffer initialize does `using_cma_ = false; return true`.
MailboxAllocBuffer ==
    /\ allocPc = "mbox_buf"
    /\ alloc_i < 3
    /\ \E outcome \in {"ok", "alloc_failed", "lock_failed", "map_failed"} :
         IF outcome = "ok"
         THEN /\ mailbox_handle_' = [mailbox_handle_ EXCEPT ![alloc_i] = TRUE]
              /\ mailbox_map_' = [mailbox_map_ EXCEPT ![alloc_i] = TRUE]
              /\ mailbox_bus_addr_' =
                     [mailbox_bus_addr_ EXCEPT ![alloc_i] = 16 * (alloc_i + 1)]
              /\ sys_log' = sys_log \o << Acquire(Res("mailbox_handle", alloc_i)),
                                         Acquire(Res("mailbox_lock", alloc_i)),
                                         Acquire(Res("mailbox_map", alloc_i)) >>
              /\ alloc_i' = alloc_i + 1
              /\ IF alloc_i = 2
                 THEN /\ allocPc' = "returned"
                      /\ using_cma_' = FALSE
                      /\ attempts' = EndAttempt(attempts, "ok")
                 ELSE /\ allocPc' = "mbox_buf"
                      /\ UNCHANGED << using_cma_, attempts >>
         ELSE /\ sys_log' = sys_log
                   \o (CASE outcome = "alloc_failed" -> << >>
                         [] outcome = "lock_failed" ->
                              << Acquire(Res("mailbox_handle", alloc_i)) >>
                              \o MailboxReleaseOps(alloc_i)
                         [] outcome = "map_failed" ->
                              << Acquire(Res("mailbox_handle", alloc_i)),
                                 Acquire(Res("mailbox_lock", alloc_i)) >>
                              \o MailboxUnlockOps(alloc_i)
                              \o MailboxReleaseOps(alloc_i))
              /\ allocPc' = "release_mailbox"
              /\ attempts' = EndAttempt(attempts, "failed")
              /\ UNCHANGED << mailbox_handle_, mailbox_map_, mailbox_bus_addr_,
                              alloc_i, using_cma_ >>
    /\ UNCHANGED << use_mailbox_, dma_heap_fd_, dmabuf_fd_, cma_map_, vcsm_fd_,
                    mailbox_fd_, mem_fd_, cpu_buffers_, allocFrame >>

\* initialize(): `use_mailbox_ = false; releaseMailboxBuffers();`
ReleaseMailbox ==
    /\ allocPc = "release_mailbox"
    /\ use_mailbox_' = FALSE
    /\ sys_log' = sys_log \o releaseMailboxBuffersOps
    /\ mailbox_map_' = [i \in Slots |-> FALSE]
    /\ mailbox_handle_' = [i \in Slots |-> FALSE]
    /\ mailbox_bus_addr_' = [i \in Slots |-> 0]
    /\ mailbox_fd_' = FALSE
    /\ mem_fd_' = FALSE
    /\ allocPc' = "release_cma"
    /\ UNCHANGED << using_cma_, dma_heap_fd_, dmabuf_fd_, cma_map_, vcsm_fd_,
                    cpu_buffers_, alloc_i, attempts, allocFrame >>

\* initialize(): `releaseCmaBuffers();`
ReleaseCma ==
    /\ allocPc = "release_cma"
    /\ sys_log' = sys_log \o releaseCmaBuffersOps
    /\ cma_map_' = [i \in Slots |-> FALSE]
    /\ dmabuf_fd_' = [i \in Slots |-> FALSE]
    /\ vcsm_fd_' = FALSE
    /\ dma_heap_fd_' = FALSE
    /\ using_cma_' = FALSE
    /\ allocPc' = "cpu"
    /\ UNCHANGED << use_mailbox_, mailbox_fd_, mem_fd_, mailbox_handle_,
                    mailbox_map_, cpu_buffers_, alloc_i, attempts,
                    mailbox_bus_addr_, allocFrame >>

\* initialize(): `return allocateCpuBuffers();` (always true).
allocateCpuBuffers ==
    /\ allocPc = "cpu"
    /\ cpu_buffers_' = TRUE
    /\ attempts' = EndAttempt(StartAttempt(attempts, "cpu"), "ok")
    /\ allocPc' = "returned"
    /\ UNCHANGED << use_mailbox_, using_cma_, dma_heap_fd_, dmabuf_fd_,
                    cma_map_, vcsm_fd_, mailbox_fd_, mem_fd_, mailbox_handle_,
                    mailbox_map_, alloc_i, sys_log, mailbox_bus_addr_,
                    allocFrame >>

\* createTripleBufferSharedMemory's test before it creates anything.
buffers_ready ==
    \/ using_cma_ /\ \A i \in Slots : cma_map_[i]
    \/ use_mailbox_ /\ \A i \in Slots : mailbox_map_[i]

\* main() after driver.initialize() returned true: the arena is created and
\* the frame loop entered, or main() reports the failure and returns 1.
\* createTripleBufferSharedMemory computes buffer_size_ from the framebuffer
\* size it is given only if initialize() left it 0.
MainCreateArena ==
    /\ allocPc = "returned"
    /\ allocPc' = IF buffers_ready THEN "frame_loop" ELSE "exit1"
    /\ buffer_size_' =
         IF buffer_size_ = 0
         THEN LET width == IF swap_axes THEN options.height ELSE options.width
                  height == IF swap_axes THEN options.width ELSE options.height
              IN  width * height * 3
         ELSE buffer_size_
    /\ UNCHANGED << use_mailbox_, using_cma_, dma_heap_fd_, dmabuf_fd_,
                    cma_map_, vcsm_fd_, mailbox_fd_, mem_fd_, mailbox_handle_,
                    mailbox_map_, cpu_buffers_, alloc_i, attempts, sys_log,
                    mailbox_bus_addr_, allocRest >>

\* ~ILI9488Framebuffer when main() returns: releaseCmaBuffers, then
\* releaseMailboxBuffers (cleanupSharedMemory touches no pool resource).
DestroyFramebuffer ==
    /\ allocPc \in {"frame_loop", "exit1"}
    /\ sys_log' = sys_log \o releaseCmaBuffersOps \o releaseMailboxBuffersOps
    /\ cma_map_' = [i \in Slots |-> FALSE]
    /\ dmabuf_fd_' = [i \in Slots |-> FALSE]
    /\ vcsm_fd_' = FALSE
    /\ dma_heap_fd_' = FALSE
    /\ using_cma_' = FALSE
    /\ mailbox_map_' = [i \in Slots |-> FALSE]
    /\ mailbox_handle_' = [i \in Slots |-> FALSE]
    /\ mailbox_bus_addr_' = [i \in Slots |-> 0]
    /\ mailbox_fd_' = FALSE
    /\ mem_fd_' = FALSE
    /\ allocPc' = IF allocPc = "exit1" THEN "destroyed1" ELSE "destroyed0"
    /\ UNCHANGED << use_mailbox_, cpu_buffers_, alloc_i, attempts, allocFrame >>

AllocInit ==
    /\ MainQuiescent
    /\ AllocConstructed
    /\ allocPc = "initialize"
    /\ op_log = << >> /\ snap_log = << >>
    /\ SpiQuiescent
    /\ RotQuiescent
    /\ DrvQuiescent
    /\ LifeQuiescent
    /\ StartQuiescent

AllocNext ==
    \/ AllocInitialize
    \/ CmaOpenHeap
    \/ CmaAllocBuffer
    \/ CmaDiscover
    \/ MailboxOpen
    \/ MailboxAllocBuffer
    \/ ReleaseMailbox
    \/ ReleaseCma
    \/ allocateCpuBuffers
    \/ MainCreateArena
    \/ DestroyFramebuffer

AllocSpec == AllocInit /\ [][AllocNext]_vars

\* ------------------------------------------------- main(): start-up
\* `Options options;` before ParseOptions fills it.
DefaultOptions == [shm_name |-> "", width |-> 0, height |-> 0, rotation_degrees |-> 0]

\* Everything main() leaves alone before it constructs the driver.
startFrame == << dma_available_, mailbox_bus_addr_, pool_map,
                 fbIndexVars, fbShmVars, dma_buf, shmVars, daemonVars,
                 producerVars, apiVars, spiVars, rotVars, drvVars, lifeVars,
                 use_mailbox_, using_cma_, dma_heap_fd_, dmabuf_fd_, cma_map_,
                 vcsm_fd_, mailbox_fd_, mem_fd_, mailbox_handle_, mailbox_map_,
                 cpu_buffers_, alloc_i, attempts, sys_log, buffer_size_ >>

\* `const Options options = ParseOptions(argc, argv);`
MainParseOptions ==
    /\ allocPc = "main"
    /\ options' = ParseOptions(cmdline)
    /\ allocPc' = "parsed"
    /\ UNCHANGED << startFrame, rotation_degrees, cmdline >>

MainValidate_noRotationCheck ==
    /\ allocPc = "parsed"
    /\ IF options.shm_name = "" \/ options.width = 0 \/ options.height = 0
       THEN /\ allocPc' = "usage_exit1"
            /\ UNCHANGED rotation_degrees
       ELSE /\ allocPc' = "initialize"
            /\ rotation_degrees' = options.rotation_degrees
    /\ UNCHANGED << startFrame, cmdline, options >>

\* main() 172-205: the usage test and the rotation test, each ending in
\* `return 1`; otherwise the configuration is taken over and the driver is
\* constructed and initialized.
MainValidate ==
    /\ allocPc = "parsed"
    /\ IF options.shm_name = "" \/ options.width = 0 \/ options.height = 0
       THEN /\ allocPc' = "usage_exit1"
            /\ UNCHANGED rotation_degrees
       ELSE IF /\ options.rotation_degrees # 0 /\ options.rotation_degrees # 90
               /\ options.rotation_degrees # 180 /\ options.rotation_degrees # 270
       THEN /\ allocPc' = "rotation_exit1"
            /\ UNCHANGED rotation_degrees
       ELSE /\ allocPc' = "initialize"
            /\ rotation_degrees' = options.rotation_degrees
    /\ UNCHANGED << startFrame, cmdline, options >>

\* The environments and argument lists tried: every option absent or
\* present, with a good, a zero, a malformed or an out-of-range value.
Cmdlines ==
    [ shm_env      : {Absent, Given(ShmName)},
      shm_arg      : {Absent, Given(""), Given(ShmName)},
      width_env    : {Absent, Given(<< "1" >>)},
      width_arg    : {Absent, Given(<< "0" >>), Given(<< "2" >>), Given(<< "2", "x" >>),
                      Given(<< "3", "2", "0" >>), Given(<< "6", "4" >>)},
      height_env   : {Absent, Given(<< "1" >>)},
      height_arg   : {Absent, Given(<< "0" >>), Given(<< "2" >>), Given(<< "2", "x" >>),
                      Given(<< "4", "8", "0" >>), Given(<< "6", "4" >>)},
      rotation_env : {Absent, Given(<< "1", "8", "0" >>)},
      rotation_arg : {Absent, Given(<< "4", "5" >>), Given(<< "9", "0" >>)} ]

StartInit ==
    /\ MainQuiescent
    /\ AllocConstructed
    /\ allocPc = "main"
    /\ op_log = << >> /\ snap_log = << >>
    /\ SpiQuiescent
    /\ RotQuiescent
    /\ DrvQuiescent
    /\ LifeQuiescent
    /\ cmdline \in Cmdlines
    /\ options = DefaultOptions

StartNext ==
    \/ MainParseOptions
    \/ MainValidate
    \/ AllocNext

StartSpec == StartInit /\ [][StartNext]_vars

\* The option value main() ends up with: argv if present, else the environment.
Effective(arg, env) == IF arg.given THEN arg ELSE env

\* C24: with an empty shm name, a missing or zero width or height, or a
\* rotation outside {0, 90, 180, 270}, the daemon returns 1 before it opens
\* a device, allocates a buffer or creates the shared-memory object.
C24_ConfigErrorsExitEarly ==
    LET shm == Effective(cmdline.shm_arg, cmdline.shm_env)
        width == Effective(cmdline.width_arg, cmdline.width_env)
        height == Effective(cmdline.height_arg, cmdline.height_env)
        bad == \/ ~shm.given \/ options.shm_name = ""
               \/ ~width.given \/ options.width = 0
               \/ ~height.given \/ options.height = 0
               \/ options.rotation_degrees \notin RotationChoices
    IN  (allocPc \notin {"main", "parsed"} /\ bad) =>
            /\ allocPc \in {"usage_exit1", "rotation_exit1"}
            /\ sys_log = << >>
            /\ AllocConstructed
            /\ mailbox_bus_addr_ = [i \in Slots |-> 0]
            /\ ~shm_linked /\ ~triple_buffer_header_

\* A daemon started with a name and a panel size but --rotation 45.
C24_Witness ==
    /\ allocPc = "rotation_exit1"
    /\ options.rotation_degrees = 45
    /\ options.width = 2 /\ options.height = 1
    /\ options.shm_name = ShmName

\* -------------------------------------------------- pool: properties
\* initialize() has returned (true: allocateCpuBuffers cannot fail).
InitializeReturned ==
    allocPc \in {"returned", "frame_loop", "exit1", "destroyed0", "destroyed1"}

\* main() is past its call of createTripleBufferSharedMemory.
PastArenaCreation ==
    allocPc \in {"frame_loop", "exit1", "destroyed0", "destroyed1"}

\* The original statement of C25: each buffer holds width * height * 3 bytes
\* and that size is a multiple of 4096.
C25_SizeIsPageMultiple ==
    PastArenaCreation =>
        /\ buffer_size_ = options.width * options.height * 3
        /\ buffer_size_ % kPageAlign = 0

\* C25: for every width, height > 0 the size of each pool buffer and of each
\* of the three arena slots is exactly width * height * 3 bytes; it is not
\* rounded up to a multiple of 4096, so it is one only when the product is.
C25_SizeIsExact ==
    (InitializeReturned /\ options.width > 0 /\ options.height > 0) =>
        buffer_size_ = options.width * options.height * 3

\* A 320 x 480 panel: 460800 bytes per buffer, 112.5 pages.
C25_Witness ==
    /\ PastArenaCreation
    /\ options.width = 320 /\ options.height = 480
    /\ buffer_size_ = 460800
    /\ buffer_size_ % kPageAlign # 0

\* The strategy whose attempt ended with success.
AdoptedStrategy == attempts[Len(attempts)].strategy

StrategyRank(s) == CASE s = "cma" -> 1 [] s = "mailbox" -> 2 [] s = "cpu" -> 3

NullBuffer == [pool |-> "null", slot |-> 0]

\* getPendingBuffer / getBackBuffer / getFrontBuffer for role index i.
GetBuffer(i) ==
    IF using_cma_
    THEN (IF cma_map_[i] THEN [pool |-> "cma", slot |-> i] ELSE NullBuffer)
    ELSE (IF mailbox_map_[i] THEN [pool |-> "mailbox", slot |-> i] ELSE NullBuffer)

\* Number of log entries <<kind, r>> among the first n.
LogCount(kind, r, n) ==
    Cardinality({k \in 1..n : sys_log[k] = << kind, r >>})

Held(r) ==
    LogCount("acquire", r, Len(sys_log)) > LogCount("release", r, Len(sys_log))

FailedStrategies ==
    {attempts[k].strategy : k \in {j \in DOMAIN attempts : attempts[j].result = "failed"}}

\* C11: when the CMA and the mailbox strategy have both failed and the pool
\* has fallen back to CPU buffers, arena creation succeeds and main() enters
\* the frame loop (it does not return 1).
C11_CpuFallbackFramePath ==
    (PastArenaCreation /\ FailedStrategies = {"cma", "mailbox"} /\ cpu_buffers_)
        => allocPc \in {"frame_loop", "destroyed0"}

\* C12: once initialize has returned, the strategies were begun in the order
\* CMA, mailbox, CPU, each one only after the one before it had failed, and
\* the buffer accessors return, for all three role indices, the buffers of
\* the strategy that succeeded.
C12_StrategyOrder ==
    allocPc = "returned" =>
        /\ \A k \in DOMAIN attempts :
             k > 1 => /\ attempts[k - 1].result = "failed"
                      /\ StrategyRank(attempts[k - 1].strategy)
                           < StrategyRank(attempts[k].strategy)
        /\ attempts[Len(attempts)].result = "ok"
        /\ \A i \in Slots : GetBuffer(i) = [pool |-> AdoptedStrategy, slot |-> i]

\* C13: once initialize has returned, nothing that a failed strategy acquired
\* (mapping, descriptor, mailbox handle or lock) is still held, and no
\* release in the log is a second release of the same acquisition.
C13_FullRollback ==
    InitializeReturned =>
        /\ \A k \in DOMAIN sys_log :
             (sys_log[k][1] = "acquire"
                /\ StrategyOf(sys_log[k][2].kind) \in FailedStrategies)
             => ~Held(sys_log[k][2])
        /\ \A k \in DOMAIN sys_log :
             sys_log[k][1] = "release"
             => LogCount("release", sys_log[k][2], k)
                  <= LogCount("acquire", sys_log[k][2], k)

\* Both DMA strategies failed part-way (CMA after buffers 0 and 1 were
\* mapped, the mailbox after buffer 0 was mapped) and initialize returned.
C13_Witness ==
    /\ allocPc = "returned"
    /\ FailedStrategies = {"cma", "mailbox"}
    /\ \E k \in DOMAIN sys_log : sys_log[k] = Acquire(Res("cma_map", 1))
    /\ \E k \in DOMAIN sys_log : sys_log[k] = Acquire(Res("mailbox_map", 0))

\* =====================================================================
\* Arena API: createTripleBufferSharedMemory and the four public index
\* operations of ILI9488Framebuffer, called one after the other in any order
\* by a single thread.  Each action is one whole call.
\* =====================================================================

\* The value a header store writes for local indices idx.
StoredValue(field, idx) ==
    CASE field = "front_index"       -> idx.front
      [] field = "back_index"        -> idx.back
      [] field = "pending_index"     -> idx.pending
      [] field = "buffer_a_bus_addr" -> mailbox_bus_addr_[idx.front]
      [] field = "buffer_b_bus_addr" -> mailbox_bus_addr_[idx.back]
      [] field = "buffer_c_bus_addr" -> mailbox_bus_addr_[idx.pending]

\* Header h after the stores k..Len(stores) of one index operation.
RECURSIVE ApplyStores(_, _, _, _)
ApplyStores(h, stores, idx, k) ==
    IF k > Len(stores) THEN h
    ELSE ApplyStores([h EXCEPT ![stores[k]] = StoredValue(stores[k], idx)],
                     stores, idx, k + 1)

\* swapBuffers: local indices only.
LocalSwap(f, b, p) == [front |-> b, back |-> f, pending |-> p]

\* rotateBuffers: local indices only.
LocalRotate(f, b, p) == [front |-> p, back |-> f, pending |-> b]

Snapshot ==
    [ front |-> front_index_, back |-> back_index_, pending |-> pending_index_,
      header |-> header ]

Call(name, w, h) == [op |-> name, width |-> w, height |-> h]

Logged(call) ==
    /\ op_log' = Append(op_log, call)
    /\ snap_log' = Append(snap_log, Snapshot)

\* What no arena call touches.
apiFrame == << configVars, daemonVars, producerVars, allocVars, spiVars,
              rotVars, startVars, drvVars, lifeVars >>

\* createTripleBufferSharedMemory(name, width, height), success path.
createTripleBufferSharedMemory ==
    /\ Len(op_log) < MaxOps
    /\ ~triple_buffer_header_
    /\ \A i \in Slots : pool_map[i]
    /\ \E width \in 1..MaxDim, height \in 1..MaxDim :
         /\ header' = CreatedHeader(width, height)
         /\ Logged(Call("create", width, height))
    /\ shm_linked' = TRUE
    /\ triple_buffer_header_' = TRUE
    /\ triple_buffer_shm_fd_' = TRUE
    /\ shm_name_' = TRUE
    /\ front_index_' = 0 /\ back_index_' = 1 /\ pending_index_' = 2
    /\ pending_sem' = SemInitValue
    /\ sem_destroyed' = FALSE
    /\ dma_buf' = [i \in Slots |-> ZeroFrame]
    /\ shm_slots' = [i \in Slots |-> ZeroFrame]
    /\ UNCHANGED apiFrame

\* An index operation as a whole: the new local indices, then its header
\* stores when the arena is mapped.
IndexOperation(name, idx, stores) ==
    /\ Logged(Call(name, 0, 0))
    /\ front_index_' = idx.front
    /\ back_index_' = idx.back
    /\ pending_index_' = idx.pending
    /\ header' = IF triple_buffer_header_
                 THEN ApplyStores(header, stores, idx, 1) ELSE header
    /\ UNCHANGED << fbShmVars, dma_buf, shm_linked, pending_sem, sem_destroyed,
                    shm_slots, apiFrame >>

rotateBufferIndices ==
    /\ Len(op_log) < MaxOps
    /\ IndexOperation("rotateBufferIndices",
                      RotatedIndices(front_index_, back_index_, pending_index_),
                      rotateStores)

swapBackAndFront ==
    /\ Len(op_log) < MaxOps
    /\ IndexOperation("swapBackAndFront",
                      SwappedIndices(front_index_, back_index_, pending_index_),
                      swapStores)

swapBuffers ==
    /\ Len(op_log) < MaxOps
    /\ IndexOperation("swapBuffers",
                      LocalSwap(front_index_, back_index_, pending_index_),
                      << >>)

rotateBuffers ==
    /\ Len(op_log) < MaxOps
    /\ IndexOperation("rotateBuffers",
                      LocalRotate(front_index_, back_index_, pending_index_),
                      << >>)

\* After the constructor and a driver.initialize() that adopted a DMA pool.
ApiInit ==
    /\ FrameLoopQuiescent
    /\ mailbox_bus_addr_ \in BusAddrChoices
    /\ pool_map = [i \in Slots |-> TRUE]
    /\ AuxQuiescent

ApiNext ==
    \/ createTripleBufferSharedMemory
    \/ rotateBufferIndices
    \/ swapBackAndFront
    \/ swapBuffers
    \/ rotateBuffers

ApiSpec == ApiInit /\ [][ApiNext]_vars

\* ------------------------------------------------- arena API: properties
\* The state after call k of op_log.
SnapshotAfter(k) == IF k = Len(op_log) THEN Snapshot ELSE snap_log[k + 1]

\* Calls k..k+n-1 of op_log are all calls of `name`.
RunOf(name, k, n) ==
    /\ k + n - 1 <= Len(op_log)
    /\ \A j \in k..(k + n - 1) : op_log[j].op = name

\* C14: right after a successful createTripleBufferSharedMemory(w, h), from
\* whatever the local indices were before, the header holds the magic,
\* version 1, 3 bytes per pixel, w and h, indices (0,1,2) like the local
\* copies, the bus addresses of buffers 0,1,2 in slots a,b,c, frame_counter
\* 0 and both flags 0, and pending_sem has value 1.
C14_CreatedArena ==
    (op_log # << >> /\ op_log[Len(op_log)].op = "create") =>
        /\ header.magic = Magic
        /\ header.version = 1
        /\ header.bytes_per_pixel = 3
        /\ header.width = op_log[Len(op_log)].width
        /\ header.height = op_log[Len(op_log)].height
        /\ << front_index_, back_index_, pending_index_ >> = << 0, 1, 2 >>
        /\ << header.front_index, header.back_index, header.pending_index >>
             = << 0, 1, 2 >>
        /\ header.buffer_a_bus_addr = mailbox_bus_addr_[0]
        /\ header.buffer_b_bus_addr = mailbox_bus_addr_[1]
        /\ header.buffer_c_bus_addr = mailbox_bus_addr_[2]
        /\ pending_sem = 1
        /\ header.frame_counter = 0
        /\ header.daemon_ready = 0 /\ header.app_connected = 0

\* The arena was created with width # height while the local indices were
\* not (0,1,2) and the pool has bus addresses.
C14_Witness ==
    /\ op_log # << >> /\ op_log[Len(op_log)].op = "create"
    /\ op_log[Len(op_log)].width # op_log[Len(op_log)].height
    /\ snap_log[Len(snap_log)].front = 2
    /\ mailbox_bus_addr_[0] # 0

\* C15: three consecutive rotateBufferIndices calls, and two consecutive
\* swapBackAndFront calls, leave the local indices and the header (index
\* fields and bus-address slots) as they were before the first of them; and
\* three rotations followed by two swaps right after creation leave the
\* header indices at (0,1,2).
C15_RotateSwapIdentity ==
    /\ \A k \in DOMAIN op_log :
         RunOf("rotateBufferIndices", k, 3) => SnapshotAfter(k + 2) = snap_log[k]
    /\ \A k \in DOMAIN op_log :
         RunOf("swapBackAndFront", k, 2) => SnapshotAfter(k + 1) = snap_log[k]
    /\ \A k \in DOMAIN op_log :
         (op_log[k].op = "create" /\ RunOf("rotateBufferIndices", k + 1, 3)
            /\ RunOf("swapBackAndFront", k + 4, 2))
         => LET h == SnapshotAfter(k + 5).header
            IN  << h.front_index, h.back_index, h.pending_index >> = << 0, 1, 2 >>

\* C36: on a created arena, after any sequence of swapBuffers,
\* rotateBuffers, rotateBufferIndices and swapBackAndFront calls the
\* header's front_index, back_index and pending_index equal the object's
\* front_index_, back_index_ and pending_index_.
C36_HeaderFollowsLocalIndices ==
    triple_buffer_header_ =>
        /\ header.front_index = front_index_
        /\ header.back_index = back_index_
        /\ header.pending_index = pending_index_

\* =====================================================================
\* SPI transport: ILI9488Transport::transferDma as the frame loop calls it,
\* one sendCommand / sendData call per step.  Each GPIO and SPI ioctl may
\* fail.  A burst on the wire records the D/C level it was clocked out with;
\* a pixel burst records the range [offset, offset+len) of the frame buffer.
\* =====================================================================

bytes_per_pixel ==
    IF spi_config.pixel_format = kIli9488PixelFormatRgb565 THEN 2 ELSE 3

line_bytes == spi_config.width * bytes_per_pixel

expected_length == line_bytes * spi_config.height

chunk_size ==
    IF spi_config.transfer_chunk_bytes > 0 THEN spi_config.transfer_chunk_bytes
    ELSE kDefaultChunkSize

Min(a, b) == IF a < b THEN a ELSE b

\* col_data / page_data: {0, 0, end >> 8, end & 0xFF} with
\* end = (uint16_t)(extent - 1).
WindowData(extent) ==
    LET end == (extent - 1) % 65536
    IN  << 0, 0, end \div 256, end % 256 >>

ByteBurst(dc, bytes) ==
    [dc |-> dc, kind |-> "bytes", bytes |-> bytes, offset |-> 0, len |-> Len(bytes),
     speed_hz |-> current_speed_hz_]

PixelBurst(dc, off, len) ==
    [dc |-> dc, kind |-> "pixels", bytes |-> << >>, offset |-> off, len |-> len,
     speed_hz |-> current_speed_hz_]

IoctlOutcomes == {"ok", "gpio_failed", "spi_failed"}

\* setGpioValue(dc_line_fd_, level) inside sendCommand / sendData: the line
\* takes the level unless the GPIO ioctl fails.
DcAfter_stuck(level, outcome) == dc_line

DcAfter(level, outcome) == IF outcome = "gpio_failed" THEN dc_line ELSE level

\* What has left the frame loop's transport untouched.
spiFrame == << mainVars, allocVars, apiVars, rotVars, startVars, drvVars, lifeVars >>

\* transferDma returns `result`: main() discards it and goes on to the
\* pacing and the next `while (g_running)` test.
Returned_fatal(result) ==
    /\ spiPc' = IF result = "failed" THEN "exited" ELSE "loop"
    /\ last_result' = result

Returned(result) ==
    /\ spiPc' = "loop"
    /\ last_result' = result

\* main(): `while (g_running)` is false, the loop is left.
SpiLoopExit ==
    /\ spiPc = "loop"
    /\ g_running = 0
    /\ spiPc' = "exited"
    /\ UNCHANGED << spi_config, current_speed_hz_, reset_writes, spi_length, dc_line, wire, offset, last_result,
                    transfers, spiFrame >>

\* main() calls transferDma(front, length); transferDma checks the length.
TransferBegin ==
    /\ spiPc = "loop"
    /\ g_running = 1
    /\ transfers < MaxTransfers
    /\ transfers' = transfers + 1
    /\ wire' = << >>
    /\ offset' = 0
    /\ \E length \in (expected_length - 1)..(expected_length + 1) :
         /\ spi_length' = length
         /\ IF length < expected_length
            THEN Returned("too_short")
            ELSE spiPc' = "cmd_col" /\ UNCHANGED last_result
    /\ UNCHANGED << spi_config, current_speed_hz_, reset_writes, dc_line, spiFrame >>

\* sendCommand(0x2A), sendCommand(0x2B) or sendCommand(0x2C).
SendWindowCommand ==
    /\ spiPc \in {"cmd_col", "cmd_page", "cmd_write"}
    /\ \E outcome \in IoctlOutcomes :
         LET command == CASE spiPc = "cmd_col"   -> kIli9488CmdColumnAddressSet
                          [] spiPc = "cmd_page"  -> kIli9488CmdPageAddressSet
                          [] spiPc = "cmd_write" -> kIli9488CmdMemoryWrite
         IN  /\ dc_line' = DcAfter(FALSE, outcome)
             /\ IF outcome = "ok"
                THEN /\ wire' = Append(wire, ByteBurst(dc_line', << command >>))
                     /\ spiPc' = CASE spiPc = "cmd_col"   -> "data_col"
                                   [] spiPc = "cmd_page"  -> "data_page"
                                   [] spiPc = "cmd_write" -> "pixels"
                     /\ UNCHANGED last_result
                ELSE /\ Returned("failed")
                     /\ UNCHANGED wire
    /\ UNCHANGED << spi_config, current_speed_hz_, reset_writes, spi_length, offset, transfers, spiFrame >>

\* sendData(col_data, 4) or sendData(page_data, 4).
SendWindowData ==
    /\ spiPc \in {"data_col", "data_page"}
    /\ \E outcome \in IoctlOutcomes :
         LET extent == IF spiPc = "data_col" THEN spi_config.width
                       ELSE spi_config.height
         IN  /\ dc_line' = DcAfter(TRUE, outcome)
             /\ IF outcome = "ok"
                THEN /\ wire' = Append(wire, ByteBurst(dc_line', WindowData(extent)))
                     /\ spiPc' = IF spiPc = "data_col" THEN "cmd_page"
                                 ELSE "cmd_write"
                     /\ UNCHANGED last_result
                ELSE /\ Returned("failed")
                     /\ UNCHANGED wire
    /\ UNCHANGED << spi_config, current_speed_hz_, reset_writes, spi_length, offset, transfers, spiFrame >>

\* One iteration of `while (offset < transfer_length)`:
\* sendData(buf + offset, min(chunk_size, remaining)).
SendPixelChunk_wholeLength ==
    /\ spiPc = "pixels"
    /\ \E outcome \in IoctlOutcomes :
         LET send_size == expected_length - offset
         IN  /\ dc_line' = DcAfter(TRUE, outcome)
             /\ IF outcome = "ok"
                THEN /\ wire' = Append(wire, PixelBurst(dc_line', offset, send_size))
                     /\ offset' = offset + send_size
                     /\ IF offset' < expected_length
                        THEN spiPc' = "pixels" /\ UNCHANGED last_result
                        ELSE Returned("ok")
                ELSE /\ Returned("failed")
                     /\ UNCHANGED << wire, offset >>
    /\ UNCHANGED << spi_config, current_speed_hz_, reset_writes, spi_length, transfers, spiFrame >>

SendPixelChunk ==
    /\ spiPc = "pixels"
    /\ \E outcome \in IoctlOutcomes :
         LET send_size == Min(chunk_size, expected_length - offset)
         IN  /\ dc_line' = DcAfter(TRUE, outcome)
             /\ IF outcome = "ok"
                THEN /\ wire' = Append(wire, PixelBurst(dc_line', offset, send_size))
                     /\ offset' = offset + send_size
                     /\ IF offset' < expected_length
                        THEN spiPc' = "pixels" /\ UNCHANGED last_result
                        ELSE Returned("ok")
                ELSE /\ Returned("failed")
                     /\ UNCHANGED << wire, offset >>
    /\ UNCHANGED << spi_config, current_speed_hz_, reset_writes, spi_length, transfers, spiFrame >>

\* Panel geometries and chunk settings: small panels with every chunk size
\* up to MaxChunk (0 = default), and a wide panel with the default and with
\* the driver's chunk size.
SpiConfigs ==
    { [width |-> w, height |-> h, pixel_format |-> kIli9488PixelFormatRgb666,
       transfer_chunk_bytes |-> c,
       speed_hz |-> spi_hz, init_speed_hz |-> spi_init_hz] :
         w \in 1..MaxDim, h \in 1..MaxDim, c \in 0..MaxChunk }
    \cup
    { [width |-> WidePanel, height |-> WidePanel,
       pixel_format |-> kIli9488PixelFormatRgb666,
       transfer_chunk_bytes |-> c,
       speed_hz |-> spi_hz, init_speed_hz |-> spi_init_hz] : c \in {0, DriverChunkBytes} }

SpiInit ==
    /\ MainQuiescent
    /\ AllocConstructed /\ allocPc = "idle"
    /\ op_log = << >> /\ snap_log = << >>
    /\ SpiIdle
    /\ spi_config \in SpiConfigs
    /\ RotQuiescent
    /\ DrvQuiescent
    /\ LifeQuiescent
    /\ StartQuiescent

SpiNext ==
    \/ HandleSignal
    \/ SpiLoopExit
    \/ TransferBegin
    \/ SendWindowCommand
    \/ SendWindowData
    \/ SendPixelChunk

SpiSpec == SpiInit /\ [][SpiNext]_vars

\* ---------------------------------------------------------------------
\* ILI9488Transport::initialize and initializePanel, followed by the frame
\* transfers of the loop above.

\* initializePanel: init_speed_hz when it is set, capped by speed_hz.
init_speed_uncapped ==
    IF spi_config.init_speed_hz > 0 THEN spi_config.init_speed_hz
    ELSE spi_config.speed_hz

init_speed ==
    IF spi_config.init_speed_hz > 0
    THEN Min(spi_config.init_speed_hz, spi_config.speed_hz)
    ELSE spi_config.speed_hz

\* sendCommandWithData(command, data): sendCommand, then sendData when
\* there are data bytes.
sendCommandWithData(command, data) ==
    IF data = << >> THEN << [dc |-> FALSE, bytes |-> << command >>] >>
    ELSE << [dc |-> FALSE, bytes |-> << command >>], [dc |-> TRUE, bytes |-> data] >>

gamma_positive == << 0, 3, 9, 8, 22, 10, 63, 120, 76, 9, 10, 8, 22, 26, 15 >>

gamma_negative == << 0, 22, 25, 3, 15, 5, 50, 69, 70, 4, 14, 13, 53, 55, 15 >>

\* The sends of initializePanel after the reset pulse, in program order,
\* each with the D/C level it asks for.
InitSends_displayOnFirst ==
    sendCommandWithData(224, gamma_positive)
    \o sendCommandWithData(225, gamma_negative)
    \o sendCommandWithData(192, << 23, 21 >>)
    \o sendCommandWithData(193, << 65 >>)
    \o sendCommandWithData(197, << 0, 18, 128 >>)
    \o sendCommandWithData(54, << kMadctl >>)
    \o sendCommandWithData(58, << spi_config.pixel_format >>)
    \o sendCommandWithData(176, << 128 >>)
    \o sendCommandWithData(177, << 160 >>)
    \o sendCommandWithData(180, << 2 >>)
    \o sendCommandWithData(32, << >>)
    \o sendCommandWithData(182, << 2, 2 >>)
    \o sendCommandWithData(233, << 0 >>)
    \o sendCommandWithData(247, << 169, 81, 44, 130 >>)
    \o sendCommandWithData(41, << >>)
    \o sendCommandWithData(17, << >>)
    \o sendCommandWithData(56, << >>)
    \o sendCommandWithData(19, << >>)

InitSends ==
    sendCommandWithData(224, gamma_positive)
    \o sendCommandWithData(225, gamma_negative)
    \o sendCommandWithData(192, << 23, 21 >>)
    \o sendCommandWithData(193, << 65 >>)
    \o sendCommandWithData(197, << 0, 18, 128 >>)
    \o sendCommandWithData(54, << kMadctl >>)
    \o sendCommandWithData(58, << spi_config.pixel_format >>)
    \o sendCommandWithData(176, << 128 >>)
    \o sendCommandWithData(177, << 160 >>)
    \o sendCommandWithData(180, << 2 >>)
    \o sendCommandWithData(32, << >>)
    \o sendCommandWithData(182, << 2, 2 >>)
    \o sendCommandWithData(233, << 0 >>)
    \o sendCommandWithData(247, << 169, 81, 44, 130 >>)
    \o sendCommandWithData(17, << >>)
    \o sendCommandWithData(41, << >>)
    \o sendCommandWithData(56, << >>)
    \o sendCommandWithData(19, << >>)

\* ILI9488Transport::initialize up to the call of initializePanel: config_
\* is kept, current_speed_hz_ becomes speed_hz, and the SPI device, its
\* mode, word size and clock, the GPIO chip and the two output lines are
\* set up; any of these failing returns false.
TransportInitialize ==
    /\ spiPc = "initialize"
    /\ current_speed_hz_' = spi_config.speed_hz
    /\ \E outcome \in IoctlOutcomes :
         spiPc' = IF outcome = "ok" THEN "panel_begin" ELSE "init_failed"
    /\ UNCHANGED << spi_config, reset_writes, spi_length, dc_line, wire, offset,
                    last_result, transfers, spiFrame >>

\* initializePanel: the clock is lowered to init_speed and RESET is driven
\* low (the result of that write is not looked at), then 120 ms pass.
PanelResetLow_fullSpeed ==
    /\ spiPc = "panel_begin"
    /\ current_speed_hz_' = spi_config.speed_hz
    /\ reset_writes' = Append(reset_writes, FALSE)
    /\ spiPc' = "panel_reset"
    /\ UNCHANGED << spi_config, spi_length, dc_line, wire, offset,
                    last_result, transfers, spiFrame >>

PanelResetLow ==
    /\ spiPc = "panel_begin"
    /\ current_speed_hz_' = init_speed
    /\ reset_writes' = Append(reset_writes, FALSE)
    /\ spiPc' = "panel_reset"
    /\ UNCHANGED << spi_config, spi_length, dc_line, wire, offset,
                    last_result, transfers, spiFrame >>

\* initializePanel: RESET is driven high again, then 120 ms pass.
PanelResetHigh ==
    /\ spiPc = "panel_reset"
    /\ reset_writes' = Append(reset_writes, TRUE)
    /\ spiPc' = "panel_send"
    /\ UNCHANGED << spi_config, current_speed_hz_, spi_length, dc_line, wire,
                    offset, last_result, transfers, spiFrame >>

\* One sendCommand or sendData of initializePanel. A failing one makes
\* initializePanel and initialize return false with the clock left at
\* init_speed; after the last one the clock goes back to the value it had
\* on entry (speed_hz), initialize returns true and the frame loop starts.
PanelSend ==
    /\ spiPc = "panel_send"
    /\ \E outcome \in IoctlOutcomes :
         LET send == InitSends[Len(wire) + 1]
         IN  /\ dc_line' = DcAfter(send.dc, outcome)
             /\ IF outcome = "ok"
                THEN /\ wire' = Append(wire, ByteBurst(dc_line', send.bytes))
                     /\ IF Len(wire') = Len(InitSends)
                        THEN /\ current_speed_hz_' = spi_config.speed_hz
                             /\ spiPc' = "loop"
                        ELSE /\ spiPc' = "panel_send"
                             /\ UNCHANGED current_speed_hz_
                ELSE /\ spiPc' = "init_failed"
                     /\ UNCHANGED << wire, current_speed_hz_ >>
    /\ UNCHANGED << spi_config, reset_writes, spi_length, offset, last_result,
                    transfers, spiFrame >>

\* Clock settings: the defaults, no separate init clock, an init clock
\* above the frame clock, and both equal.
PanelConfigs ==
    { [width |-> OptionsWidth, height |-> OptionsHeight,
       pixel_format |-> f, transfer_chunk_bytes |-> c,
       speed_hz |-> sp, init_speed_hz |-> isp] :
         f \in {kIli9488PixelFormatRgb666, kIli9488PixelFormatRgb565},
         c \in {0, MaxChunk},
         sp \in {spi_hz, spi_init_hz \div 2},
         isp \in {0, spi_init_hz, spi_hz} }

\* A constructed transport (current_speed_hz_(0)) before initialize.
PanelInit ==
    /\ MainQuiescent
    /\ AllocConstructed /\ allocPc = "idle"
    /\ op_log = << >> /\ snap_log = << >>
    /\ spiPc = "initialize"
    /\ spi_length = 0
    /\ dc_line = TRUE
    /\ wire = << >>
    /\ offset = 0
    /\ last_result = "none"
    /\ transfers = 0
    /\ current_speed_hz_ = 0
    /\ reset_writes = << >>
    /\ spi_config \in PanelConfigs
    /\ RotQuiescent
    /\ DrvQuiescent
    /\ LifeQuiescent
    /\ StartQuiescent

PanelNext ==
    \/ TransportInitialize
    \/ PanelResetLow
    \/ PanelResetHigh
    \/ PanelSend
    \/ HandleSignal
    \/ SpiLoopExit
    \/ TransferBegin
    \/ SendWindowCommand
    \/ SendWindowData
    \/ SendPixelChunk

PanelSpec == PanelInit /\ [][PanelNext]_vars

\* The command bytes of `bursts`, in order.
RECURSIVE CommandsOf(_)
CommandsOf(bursts) ==
    IF bursts = << >> THEN << >>
    ELSE IF Head(bursts).dc THEN CommandsOf(Tail(bursts))
         ELSE << Head(bursts).bytes[1] >> \o CommandsOf(Tail(bursts))

\* C35: initializePanel drives RESET low and then high before the first
\* command; the commands go out in the order 0xE0, 0xE1, 0xC0, 0xC1, 0xC5,
\* 0x36, 0x3A, 0xB0, 0xB1, 0xB4, 0x20, 0xB6, 0xE9, 0xF7, 0x11, 0x29, 0x38,
\* 0x13, a parameter burst only directly after its command; every burst
\* of the sequence goes at the init clock (init_speed_hz when it is set and
\* below speed_hz, otherwise speed_hz); and once initialize has returned
\* true every burst of a frame transfer goes at speed_hz.
C35_InitSequenceAndClocks ==
    LET order == << 224, 225, 192, 193, 197, 54, 58, 176, 177, 180, 32,
                    182, 233, 247, 17, 41, 56, 19 >>
        init_clock == IF spi_config.init_speed_hz > 0
                         /\ spi_config.init_speed_hz < spi_config.speed_hz
                      THEN spi_config.init_speed_hz
                      ELSE spi_config.speed_hz
        commands == CommandsOf(wire)
    IN  /\ transfers = 0 =>
             /\ wire # << >> => reset_writes = << FALSE, TRUE >>
             /\ Len(commands) <= Len(order)
             /\ commands = SubSeq(order, 1, Len(commands))
             /\ \A k \in DOMAIN wire :
                  /\ wire[k].speed_hz = init_clock
                  /\ wire[k].dc => (k > 1 /\ ~wire[k - 1].dc)
                  /\ ~wire[k].dc => wire[k].len = 1
             /\ spiPc \in {"loop", "exited"} => commands = order
        /\ transfers > 0 =>
             /\ current_speed_hz_ = spi_config.speed_hz
             /\ \A k \in DOMAIN wire : wire[k].speed_hz = spi_config.speed_hz

\* With the default clocks (4 MHz below 65 MHz) the panel was initialised
\* and a whole frame then went out.
C35_Witness ==
    /\ spi_config.init_speed_hz = spi_init_hz
    /\ spi_config.speed_hz = spi_hz
    /\ reset_writes = << FALSE, TRUE >>
    /\ transfers = 1
    /\ spiPc = "loop"
    /\ last_result = "ok"
    /\ wire[Len(wire)].kind = "pixels"

\* --------------------------------------------------- transport: properties
\* The current transferDma call has returned true.
TransferDone == spiPc \in {"loop", "exited"} /\ last_result = "ok" /\ wire # << >>

\* C16: the bursts of a transferDma call are, in this order, command 0x2A
\* with D/C low, the four bytes 0, 0, (W-1)>>8, (W-1)&0xFF with D/C high,
\* command 0x2B with D/C low, the four bytes for H-1 with D/C high, command
\* 0x2C with D/C low, and then only pixel bursts with D/C high, of which a
\* call that returned true has sent at least one.
C16_WindowThenPixels ==
    LET W == spi_config.width
        H == spi_config.height
        head == << [dc |-> FALSE, bytes |-> << 42 >>],
                   [dc |-> TRUE,  bytes |-> << 0, 0, (W - 1) \div 256, (W - 1) % 256 >>],
                   [dc |-> FALSE, bytes |-> << 43 >>],
                   [dc |-> TRUE,  bytes |-> << 0, 0, (H - 1) \div 256, (H - 1) % 256 >>],
                   [dc |-> FALSE, bytes |-> << 44 >>] >>
    IN  /\ \A k \in DOMAIN wire :
             IF k <= 5
             THEN /\ wire[k].kind = "bytes"
                  /\ wire[k].dc = head[k].dc
                  /\ wire[k].bytes = head[k].bytes
             ELSE wire[k].kind = "pixels" /\ wire[k].dc = TRUE
        /\ TransferDone => Len(wire) >= 6

\* A frame of the wide panel went out completely, in several pixel bursts.
C16_Witness ==
    /\ TransferDone
    /\ spi_config.width = WidePanel
    /\ Len(wire) > 6

\* C17: the pixel bursts after 0x2C are non-empty, consecutive from offset 0
\* without gap or overlap, each at most transfer_chunk_bytes long (4096 when
\* that setting is 0), and a call that returned true has sent exactly
\* W*H*3 bytes of them, whatever length (>= W*H*3) the caller passed.
C17_PixelChunks ==
    LET limit == IF spi_config.transfer_chunk_bytes = 0 THEN 4096
                 ELSE spi_config.transfer_chunk_bytes
        total == spi_config.width * spi_config.height * 3
    IN  /\ \A k \in DOMAIN wire :
             k >= 6 => /\ wire[k].len >= 1
                       /\ wire[k].len <= limit
                       /\ wire[k].offset = IF k = 6 THEN 0
                                           ELSE wire[k - 1].offset + wire[k - 1].len
        /\ TransferDone =>
             wire[Len(wire)].offset + wire[Len(wire)].len = total

\* A call with a length larger than the frame returned true after a last
\* chunk shorter than the others.
C17_Witness ==
    /\ TransferDone
    /\ spi_length > expected_length
    /\ Len(wire) >= 8
    /\ wire[Len(wire)].len < wire[6].len

\* C18: a step of transferDma whose GPIO or SPI ioctl fails sends nothing
\* and ends the call; between calls nothing more of that frame is sent; the
\* frame loop is left only when g_running is 0, never because a transfer
\* failed; and the first burst of every call is command 0x2A.
C18_FailureNotFatal ==
    [][ /\ (spiPc \notin {"loop", "exited"} /\ last_result' = "failed"
              /\ spiPc' \in {"loop", "exited"})
           => wire' = wire
        /\ spiPc \in {"loop", "exited"} => wire' \in {wire, << >>}
        /\ (spiPc # "exited" /\ spiPc' = "exited") => (spiPc = "loop" /\ g_running = 0)
        /\ (wire = << >> /\ wire' # << >>)
           => (wire'[1].bytes = << 42 >> /\ wire'[1].dc = FALSE)
      ]_vars

\* The call after one that failed in an ioctl has sent its 0x2A command.
C18_Witness ==
    /\ transfers = 2
    /\ spiPc \notin {"loop", "exited"}
    /\ last_result = "failed"
    /\ wire # << >>

\* =====================================================================
\* Rotation: pixel::RotateRgb666 and the frame loop's rotation stage
\* (pixel_utils.cpp, gpu_rotate.cpp, ili9488_daemon.cpp main()).
\* An image is the sequence of its bytes, row-major, three bytes a pixel;
\* byte d of a sequence is the C array's element d-1.
\* =====================================================================

\* Image sides tried: the small ones and one that is a tile plus one pixel,
\* so that both rotators run a full tile and a clipped one.
RotDims == (1 .. MaxDim) \cup {kTileSize + 1}

\* Angles the daemon accepts for a rotated panel.
RotatedChoices == RotationChoices \ {0}

rotation_to_apply_direct == rotation_degrees % 360

\* `rotation_to_apply` of main().
rotation_to_apply == (360 - rotation_degrees) % 360

\* A source image whose bytes are pairwise different and non-zero.
LabelledImage(width, height) ==
    [d \in 1 .. width * height * BytesPerPixel |-> d]

\* A buffer as createTripleBufferSharedMemory's memset leaves it.
ZeroImage(width, height) ==
    [d \in 1 .. width * height * BytesPerPixel |-> 0]

\* std::memcpy(dst, src, bytes).
Memcpy(src, dst, bytes) ==
    [d \in DOMAIN dst |-> IF d <= bytes THEN src[d] ELSE dst[d]]

\* The values tile_y / tile_x take: 0, kTileSize, ... below `extent`.
TileOrigins(extent) == {t \in 0 .. extent - 1 : t % kTileSize = 0}

\* tile_h / tile_w.
TileExtent(origin, extent) ==
    IF origin + kTileSize <= extent THEN kTileSize ELSE extent - origin

\* The iterations << tile_y, tile_x, y, x >> of the four nested loops of a
\* tiled rotator; each runs the loop body once.
TiledIterations(width, height) ==
    UNION { UNION { { << tile_y, tile_x, y, x >> :
                        y \in 0 .. TileExtent(tile_y, height) - 1,
                        x \in 0 .. TileExtent(tile_x, width) - 1 } :
                    tile_x \in TileOrigins(width) } :
            tile_y \in TileOrigins(height) }

\* The <<src_y, src_x>> pairs those iterations visit.
TiledVisits(width, height) ==
    { << it[1] + it[3], it[2] + it[4] >> : it \in TiledIterations(width, height) }

\* A tiled rotator leaves in dst[d] the source byte of the visit
\* <<src_y, src_x>> = v whose dst_idx = (dst_y * dst_width + dst_x) * 3 covers
\* d, and what dst held before where no visit stores.
\* Rotate90Tiled: dst_x = dst_width - 1 - src_y, dst_y = src_x.
Rotate90Tiled(src, dst, width, height) ==
    LET dst_width == height
        visits == TiledVisits(width, height)
    IN  [d \in DOMAIN dst |->
           LET q == (d - 1) \div 3
               c == (d - 1) % 3
               hits == {v \in visits : v[2] * dst_width + (dst_width - 1 - v[1]) = q}
           IN  IF hits = {}
               THEN dst[d]
               ELSE LET v == CHOOSE v \in hits : TRUE
                    IN  src[(v[1] * width + v[2]) * 3 + c + 1]]

Rotate270Tiled_asRotate90(src, dst, width, height) ==
    LET dst_width == height
        visits == TiledVisits(width, height)
    IN  [d \in DOMAIN dst |->
           LET q == (d - 1) \div 3
               c == (d - 1) % 3
               hits == {v \in visits : v[2] * dst_width + (dst_width - 1 - v[1]) = q}
           IN  IF hits = {}
               THEN dst[d]
               ELSE LET v == CHOOSE v \in hits : TRUE
                    IN  src[(v[1] * width + v[2]) * 3 + c + 1]]

\* Rotate270Tiled: dst_x = src_y, dst_y = dst_height - 1 - src_x.
Rotate270Tiled(src, dst, width, height) ==
    LET dst_width == height
        dst_height == width
        visits == TiledVisits(width, height)
    IN  [d \in DOMAIN dst |->
           LET q == (d - 1) \div 3
               c == (d - 1) % 3
               hits == {v \in visits : (dst_height - 1 - v[2]) * dst_width + v[1] = q}
           IN  IF hits = {}
               THEN dst[d]
               ELSE LET v == CHOOSE v \in hits : TRUE
                    IN  src[(v[1] * width + v[2]) * 3 + c + 1]]

Rotate180Optimized_blocksOnly(src, dst, width, height) ==
    LET total_pixels == width * height
        src_end == total_pixels * 3
        pixels_4 == total_pixels - (total_pixels % 4)
    IN  [d \in DOMAIN dst |->
           LET q == (d - 1) \div 3
               c == (d - 1) % 3
           IN  IF q < pixels_4
               THEN LET i == q - (q % 4)
                        s == src_end - (i + 4) * 3
                    IN  src[s + (9 - 3 * (q % 4)) + c + 1]
               ELSE dst[d]]

\* Rotate180Optimized: blocks of four pixels read backwards from src_end,
\* then the remaining total_pixels % 4 pixels one at a time.
Rotate180Optimized(src, dst, width, height) ==
    LET total_pixels == width * height
        src_end == total_pixels * 3
        pixels_4 == total_pixels - (total_pixels % 4)
    IN  [d \in DOMAIN dst |->
           LET q == (d - 1) \div 3
               c == (d - 1) % 3
           IN  IF q < pixels_4
               THEN LET i == q - (q % 4)
                        s == src_end - (i + 4) * 3
                    IN  src[s + (9 - 3 * (q % 4)) + c + 1]
               ELSE IF q < total_pixels
               THEN LET s == src_end - (q + 1) * 3
                    IN  src[s + c + 1]
               ELSE dst[d]]

\* The pixel stores of one RotateRgb666 call, as pairs << loop iteration,
\* destination pixel index >>: the tiled loop bodies, the four stores of
\* each block and the tail stores of the 180 routine, the memcpy.
DstWrites(width, height, degrees) ==
    LET total_pixels == width * height
        pixels_4 == total_pixels - (total_pixels % 4)
        dst_width == height
        dst_height == width
    IN  CASE degrees = 90 ->
               { << it, (it[2] + it[4]) * dst_width
                          + (dst_width - 1 - (it[1] + it[3])) >> :
                   it \in TiledIterations(width, height) }
          [] degrees = 270 ->
               { << it, (dst_height - 1 - (it[2] + it[4])) * dst_width
                          + (it[1] + it[3]) >> :
                   it \in TiledIterations(width, height) }
          [] degrees = 180 ->
               { << << "block", i, j >>, i + j >> :
                   i \in {b \in 0 .. pixels_4 - 1 : b % 4 = 0}, j \in 0 .. 3 }
               \cup { << << "tail", i >>, i >> : i \in pixels_4 .. total_pixels - 1 }
          [] OTHER ->
               { << << "memcpy", q >>, q >> : q \in 0 .. total_pixels - 1 }

\* pixel::RotateRgb666: the switch on rotation_degrees.
RotateRgb666(src, dst, width, height, degrees) ==
    CASE degrees = 0   -> Memcpy(src, dst, width * height * 3)
      [] degrees = 90  -> Rotate90Tiled(src, dst, width, height)
      [] degrees = 180 -> Rotate180Optimized(src, dst, width, height)
      [] degrees = 270 -> Rotate270Tiled(src, dst, width, height)
      [] OTHER         -> Memcpy(src, dst, width * height * 3)

\* ----------------------------------------------------- the DMA rotator
\* What configureAndWaitDma writes to the channel's LEN and STRIDE
\* registers; STRIDE is kept as its two 16-bit halves, (ylen - 1) << 16
\* losing the bits above the upper one.
DmaRegisters(width, height, degrees) ==
    LET xlen == IF degrees \in {90, 270} THEN height * BytesPerPixel
                                         ELSE width * BytesPerPixel
        ylen == IF degrees \in {90, 270} THEN width ELSE height
    IN  [ len         |-> xlen * ylen,
          stride_high |-> (ylen - 1) % DmaHalfWord,
          stride_low  |-> xlen % DmaHalfWord ]

\* A 16-bit stride field read as a signed number.
SignedHalf(u) == IF u >= DmaHalfWord \div 2 THEN u - DmaHalfWord ELSE u

\* The transfer those registers describe with TI = SRC_INC | DEST_INC |
\* TDMODE: YLENGTH + 1 rows of XLENGTH bytes, both addresses increasing
\* inside a row, the strides added after each row.  Bytes read outside the
\* source buffer are not part of the image and read as 0 here.
Dma2dTransfer(src, dst, regs) ==
    LET XLENGTH  == regs.len % DmaHalfWord
        YLENGTH  == (regs.len \div DmaHalfWord) % (DmaHalfWord \div 4)
        S_STRIDE == SignedHalf(regs.stride_low)
        D_STRIDE == SignedHalf(regs.stride_high)
    IN  [d \in DOMAIN dst |->
           LET rows == {r \in 0 .. YLENGTH :
                          (d - 1) - r * (XLENGTH + D_STRIDE) \in 0 .. XLENGTH - 1}
           IN  IF rows = {}
               THEN dst[d]
               ELSE LET r == CHOOSE r \in rows : \A o \in rows : o <= r
                        from == r * (XLENGTH + S_STRIDE)
                                  + ((d - 1) - r * (XLENGTH + D_STRIDE)) + 1
                    IN  IF from \in DOMAIN src THEN src[from] ELSE 0]

\* What the back buffer can hold once the channel has been started: the
\* engine ran the transfer the registers describe, or it moved nothing
\* (the registers were written directly, without a control block).
DmaEffects(src, dst, width, height, degrees) ==
    { Dma2dTransfer(src, dst, DmaRegisters(width, height, degrees)), dst }

\* ------------------------------------------------------------- actions
rotFrame == << mainVars, allocVars, apiVars, spiVars, startVars, drvVars, lifeVars >>

\* main() 301-311 with rotateRgb666DmaMode and configureAndWaitDma up to
\* the store of CS = ACTIVE: the DMA path is taken when both bus addresses
\* are non-zero and the rotator has a channel.
RotStageBegin ==
    /\ rotPc = "stage"
    /\ header.rotation_degrees # 0
    /\ LET pending_bus_addr == header.buffer_c_bus_addr
           back_bus_addr == header.buffer_b_bus_addr
       IN  IF pending_bus_addr # 0 /\ back_bus_addr # 0 /\ dma_available_
           THEN rotPc' = "dma_wait" /\ dma_cs' = "active"
           ELSE rotPc' = "cpu" /\ dma_cs' = dma_cs
    /\ rotated' = FALSE
    /\ UNCHANGED << rotFrame, rot_width, rot_height, pending_cpu, back_cpu,
                    once_cpu, twice_cpu, pix_rotation, pixPc,
                    front_cpu, rot_panel >>

RotDmaWait_noReset ==
    /\ rotPc = "dma_wait"
    /\ \E outcome \in {"idle", "timeout"} :
         /\ rotated' = (outcome = "idle")
         /\ rotPc' = IF outcome = "idle" THEN "rotated" ELSE "cpu"
         /\ dma_cs' = IF outcome = "idle" THEN "idle" ELSE dma_cs
    /\ back_cpu' \in DmaEffects(pending_cpu, back_cpu, rot_width, rot_height,
                                rotation_to_apply)
    /\ UNCHANGED << rotFrame, rot_width, rot_height, pending_cpu,
                    once_cpu, twice_cpu, pix_rotation, pixPc,
                    front_cpu, rot_panel >>

\* configureAndWaitDma's polling loop: ACTIVE clears (return true), or
\* max_wait_ms passes first (CS = RESET, return false).
RotDmaWait ==
    /\ rotPc = "dma_wait"
    /\ \E outcome \in {"idle", "timeout"} :
         /\ rotated' = (outcome = "idle")
         /\ rotPc' = IF outcome = "idle" THEN "rotated" ELSE "cpu"
         /\ dma_cs' = IF outcome = "idle" THEN "idle" ELSE "reset"
    /\ back_cpu' \in DmaEffects(pending_cpu, back_cpu, rot_width, rot_height,
                                rotation_to_apply)
    /\ UNCHANGED << rotFrame, rot_width, rot_height, pending_cpu,
                    once_cpu, twice_cpu, pix_rotation, pixPc,
                    front_cpu, rot_panel >>

\* main() 312-316: `if (!rotated) pixel::RotateRgb666(pending_cpu, back_cpu, ...)`.
RotCpuFallback ==
    /\ rotPc = "cpu"
    /\ ~rotated
    /\ back_cpu' = RotateRgb666(pending_cpu, back_cpu, rot_width, rot_height,
                                rotation_to_apply)
    /\ rotPc' = "rotated"
    /\ UNCHANGED << rotFrame, rot_width, rot_height, pending_cpu, rotated,
                    once_cpu, twice_cpu, pix_rotation, pixPc,
                    front_cpu, dma_cs, rot_panel >>

\* The local buffer a role index designates.
LocalBuffer(i) ==
    CASE i = front_index_   -> front_cpu
      [] i = back_index_    -> back_cpu
      [] i = pending_index_ -> pending_cpu

\* Everything but the role indices and the header, which the end of the
\* stage leaves alone.
rotSwapFrame == << rotation_degrees, dma_available_, mailbox_bus_addr_, pool_map,
                  fbShmVars, dma_buf, shm_linked, pending_sem, sem_destroyed,
                  shm_slots, daemonVars, producerVars,
                  allocVars, apiVars, spiVars, startVars, drvVars, lifeVars >>

\* main() 318-321: swapBackAndFront(), then transferDma(getFrontBuffer());
\* the loop then comes round to the stage again (no new frame is copied).
RotSwapAndTransmit ==
    /\ rotPc = "rotated"
    /\ LET r == SwappedIndices(front_index_, back_index_, pending_index_) IN
         /\ front_index_' = r.front
         /\ back_index_' = r.back
         /\ pending_index_' = r.pending
         /\ header' = IF triple_buffer_header_
                         THEN ApplyStores(header, swapStores, r, 1) ELSE header
         /\ front_cpu' = LocalBuffer(r.front)
         /\ back_cpu' = LocalBuffer(r.back)
         /\ pending_cpu' = LocalBuffer(r.pending)
         /\ rot_panel' = LocalBuffer(r.front)
    /\ rotPc' = "stage"
    /\ UNCHANGED << rotSwapFrame, rot_width, rot_height, rotated,
                    once_cpu, twice_cpu, pix_rotation, pixPc, dma_cs >>

\* RotateRgb666(I, once, W, H, r) for an angle r.
PixRotate ==
    /\ pixPc = "start"
    /\ \E r \in RotationChoices :
         /\ once_cpu' = RotateRgb666(pending_cpu, ZeroImage(rot_width, rot_height),
                                     rot_width, rot_height, r)
         /\ pix_rotation' = r
    /\ pixPc' = "once"
    /\ UNCHANGED << rotFrame, rot_width, rot_height, pending_cpu, back_cpu,
                    rotPc, rotated, twice_cpu, front_cpu, dma_cs, rot_panel >>

\* Width of the image a rotation by `degrees` produces.
RotatedWidth(width, height, degrees) ==
    IF degrees \in {90, 270} THEN height ELSE width

RotatedHeight(width, height, degrees) ==
    IF degrees \in {90, 270} THEN width ELSE height

\* RotateRgb666(once, twice, W', H', (360 - r) % 360) with the dimensions
\* of the intermediate image.
PixRotateBack ==
    /\ pixPc = "once"
    /\ twice_cpu' = RotateRgb666(once_cpu, ZeroImage(rot_width, rot_height),
                                 RotatedWidth(rot_width, rot_height, pix_rotation),
                                 RotatedHeight(rot_width, rot_height, pix_rotation),
                                 (360 - pix_rotation) % 360)
    /\ pixPc' = "twice"
    /\ UNCHANGED << rotFrame, rot_width, rot_height, pending_cpu, back_cpu,
                    rotPc, rotated, once_cpu, pix_rotation,
                    front_cpu, dma_cs, rot_panel >>

\* The daemon inside its frame loop with a rotated panel, a frame in the
\* pending buffer and a zero-filled back buffer.
RotInit ==
    /\ rotation_degrees \in RotatedChoices
    /\ dma_available_ \in BOOLEAN
    /\ mailbox_bus_addr_ \in BusAddrChoices
    /\ pool_map = [i \in Slots |-> TRUE]
    /\ front_index_ = 0 /\ back_index_ = 1 /\ pending_index_ = 2
    /\ triple_buffer_header_ = TRUE
    /\ triple_buffer_shm_fd_ = TRUE
    /\ shm_name_ = TRUE
    /\ dma_buf = [i \in Slots |-> ZeroFrame]
    /\ shm_linked = TRUE
    /\ rot_width \in RotDims
    /\ rot_height \in RotDims
    /\ header = [ CreatedHeader(rot_width, rot_height)
                    EXCEPT !.rotation_degrees = rotation_degrees,
                           !.daemon_ready = 1 ]
    /\ pending_sem = SemInitValue
    /\ sem_destroyed = FALSE
    /\ shm_slots = [i \in Slots |-> ZeroFrame]
    /\ g_running = 1
    /\ daemonPc = "loop"
    /\ last_frame_counter = 0
    /\ current_frame_counter = 0
    /\ storeStep = 0
    /\ dma_polls = 0
    /\ consumed = 0
    /\ panel = ZeroFrame
    /\ producerPc = "off"
    /\ pending_buf = 0
    /\ frame_num = 0
    /\ completed = 0
    /\ AllocConstructed /\ allocPc = "idle"
    /\ op_log = << >> /\ snap_log = << >>
    /\ SpiQuiescent
    /\ StartQuiescent
    /\ DrvQuiescent
    /\ LifeQuiescent
    /\ pending_cpu = LabelledImage(rot_width, rot_height)
    /\ back_cpu = ZeroImage(rot_width, rot_height)
    /\ rotPc = "stage"
    /\ rotated = FALSE
    /\ once_cpu = << >> /\ twice_cpu = << >>
    /\ pix_rotation = 0
    /\ pixPc = "start"
    /\ front_cpu = ZeroImage(rot_width, rot_height)
    /\ dma_cs = "idle"
    /\ rot_panel = << >>

RotNext ==
    \/ RotStageBegin
    \/ RotDmaWait
    \/ RotCpuFallback
    \/ RotSwapAndTransmit
    \/ PixRotate
    \/ PixRotateBack

RotSpec == RotInit /\ [][RotNext]_vars

\* ---------------------------------------------------------- properties
\* The naive rotation: destination pixel (dst_x, dst_y) of the image turned
\* by `degrees` is the source pixel that a turn by that angle carries there.
NaiveRotate(src, width, height, degrees) ==
    LET dst_width == RotatedWidth(width, height, degrees)
        At(x, y, c) == src[(y * width + x) * 3 + c + 1]
    IN  [d \in 1 .. width * height * 3 |->
           LET q == (d - 1) \div 3
               c == (d - 1) % 3
               dst_x == q % dst_width
               dst_y == q \div dst_width
           IN  CASE degrees = 90  -> At(dst_y, height - 1 - dst_x, c)
                 [] degrees = 180 -> At(width - 1 - dst_x, height - 1 - dst_y, c)
                 [] degrees = 270 -> At(width - 1 - dst_y, dst_x, c)
                 [] OTHER         -> src[d]]

\* C19: once the rotation stage of an iteration is over (the DMA path
\* reported success, or the CPU fallback ran), the back buffer holds the
\* pending frame rotated by the applied angle, for 90, 180 and 270 degrees.
C19_StageRotates ==
    rotPc = "rotated" =>
        back_cpu = NaiveRotate(pending_cpu, rot_width, rot_height,
                               rotation_to_apply)

\* C20: RotateRgb666 by r followed by RotateRgb666 by (360 - r) mod 360,
\* applied with the intermediate image's dimensions, reproduces the image
\* byte for byte, for every r in {0, 90, 180, 270}.
C20_RoundTrip ==
    pixPc = "twice" => twice_cpu = pending_cpu

\* A quarter turn and back on an image that is not square and has one
\* side longer than a tile.
C20_Witness ==
    /\ pixPc = "twice"
    /\ pix_rotation = 90
    /\ rot_width = kTileSize + 1
    /\ rot_height # rot_width

\* C21: for every angle and every W, H >= 1, tile-aligned or not and with a
\* pixel count that is a multiple of 4 or not, the output of RotateRgb666
\* equals the naive per-pixel rotation, every destination pixel is stored
\* exactly once and none outside the output, and the output is W x H for 0
\* and 180 degrees and H x W for 90 and 270.
C21_MatchesNaive ==
    pixPc \in {"once", "twice"} =>
        LET total == rot_width * rot_height
            out_width == IF pix_rotation \in {0, 180} THEN rot_width ELSE rot_height
            out_height == IF pix_rotation \in {0, 180} THEN rot_height ELSE rot_width
            writes == DstWrites(rot_width, rot_height, pix_rotation)
        IN  /\ once_cpu = NaiveRotate(pending_cpu, rot_width, rot_height, pix_rotation)
            /\ \A q \in 0 .. total - 1 :
                   Cardinality({w \in writes : w[2] = q}) = 1
            /\ \A w \in writes :
                   /\ w[2] % out_width \in 0 .. out_width - 1
                   /\ w[2] \div out_width \in 0 .. out_height - 1
            /\ DOMAIN once_cpu = 1 .. out_width * out_height * 3

\* A half turn of an image whose side is not a multiple of the tile and
\* whose pixel count is not a multiple of 4.
C21_Witness ==
    /\ pixPc = "once"
    /\ pix_rotation = 180
    /\ rot_width = kTileSize + 1
    /\ (rot_width * rot_height) % 4 # 0
    /\ rot_height > 1

\* C22: before it operates the semaphore, writes a frame slot or increments
\* frame_counter, a producer has validated magic and version, set
\* app_connected = 1 and seen daemon_ready = 1.
C22_ProducerHandshake ==
    (ProducerHolds \/ completed > 0) =>
        /\ header.magic = Magic
        /\ header.version = Version
        /\ header.app_connected = 1
        /\ header.daemon_ready = 1

\* C23: in every iteration that takes the rotation branch, the angle the
\* daemon passes to its rotators is (360 - rotation) mod 360, rotation being
\* the header.rotation_degrees that selected the branch.
C23_AppliedAngle ==
    daemonPc \in {"dma_start", "dma_wait", "cpu_rotate"} =>
        /\ header.rotation_degrees # 0
        /\ rotation_to_apply = (360 - header.rotation_degrees) % 360

\* The rotation branch of a later iteration, after a produced frame was
\* copied and the roles were swapped once, on a panel turned by 90 degrees.
C23_Witness ==
    /\ daemonPc = "cpu_rotate"
    /\ header.rotation_degrees = 90
    /\ consumed >= 1
    /\ front_index_ = 1

\* C26: on the 0-degree path, under every interleaving of daemon and
\* producer, whenever the daemon sees a changed frame_counter the arena slot
\* it copies is the slot the producer wrote most recently (and so holds the
\* frame numbered by that counter), and the frames sent to the panel never
\* go back in production order.
C26_CopiesLatestInOrder ==
    [][ /\ (header.rotation_degrees = 0 /\ daemonPc = "locked" /\ daemonPc' = "memcpy1") =>
              /\ pending_index_ = pending_buf
              /\ shm_slots[pending_index_] = << header.frame_counter, header.frame_counter >>
        /\ (header.rotation_degrees = 0 /\ daemonPc = "transmit") =>
              /\ panel'[1] >= panel[1]
              /\ panel'[2] >= panel[2] ]_vars

\* C27: on the 0-degree path, while the producer writes no new frame, every
\* transmission carries the content of the previous one: once the panel
\* shows the latest frame produced and the producer is outside its write
\* section, a further transmission leaves the panel as it is.
C27_IdleRetransmitsSame ==
    [][ ( /\ header.rotation_degrees = 0
          /\ daemonPc = "transmit"
          /\ ~ProducerHolds
          /\ last_frame_counter = header.frame_counter
          /\ panel = << header.frame_counter, header.frame_counter >> )
        => panel' = panel ]_vars

\* C28: the 0-degree branch turns (front, back, pending) into
\* (pending, front, back) and transmits the buffer that was pending; the
\* rotation branch writes the rotated pixels into the back buffer only,
\* exchanges back and front and transmits the buffer that was back; the
\* roles change nowhere else, and the buffer the SPI transfer reads is the
\* front buffer, never the one that is pending or back after the change.
C28_TransmitsNewFront ==
    [][ /\ (daemonPc = "branch" /\ daemonPc' # "branch" /\ header.rotation_degrees = 0) =>
              /\ front_index_' = pending_index_
              /\ back_index_' = front_index_
              /\ pending_index_' = back_index_
        /\ (daemonPc \in {"dma_start", "dma_wait", "cpu_rotate"}) =>
              \A i \in Slots : i # back_index_ => dma_buf'[i] = dma_buf[i]
        /\ (daemonPc = "swap" /\ daemonPc' # "swap") =>
              /\ front_index_' = back_index_
              /\ back_index_' = front_index_
              /\ pending_index_' = pending_index_
        /\ ~( \/ daemonPc = "branch" /\ header.rotation_degrees = 0
              \/ daemonPc = "swap" ) => UNCHANGED fbIndexVars
        /\ (daemonPc = "transmit" /\ daemonPc' # "transmit") =>
              /\ panel' = dma_buf[front_index_]
              /\ front_index_ \notin {pending_index_, back_index_}
              /\ dma_buf' = dma_buf ]_vars

\* A transmission on the rotation branch has just sent frame 1 from the
\* buffer that was back while the rotator filled it.
C28_Witness ==
    /\ header.rotation_degrees = 90
    /\ daemonPc = "loop"
    /\ consumed = 1
    /\ panel = << 1, 1 >>
    /\ dma_buf[front_index_] = << 1, 1 >>
    /\ front_index_ = 1 /\ back_index_ = 0

\* C29: in an iteration that acquired the semaphore (and found both local
\* buffers) the daemon copies the arena's pending slot into its local
\* pending buffer exactly when frame_counter differs from the value it saw
\* last, and then records the value it read; with an unchanged counter it
\* copies nothing, and its local buffers and the recorded value stay as
\* they are until the semaphore is posted.
C29_CopyIffCounterChanged ==
    [][ /\ ( /\ daemonPc = "locked" /\ daemonPc' # "locked"
             /\ pool_map[pending_index_] /\ pool_map[back_index_] ) =>
              /\ dma_buf' = dma_buf
              /\ last_frame_counter' = last_frame_counter
              /\ current_frame_counter' = header.frame_counter
              /\ daemonPc' = IF header.frame_counter # last_frame_counter
                             THEN "memcpy1" ELSE "post"
        /\ (daemonPc = "memcpy2" /\ daemonPc' = "post") =>
              /\ dma_buf'[pending_index_] = shm_slots[pending_index_]
              /\ \A i \in Slots : i # pending_index_ => dma_buf'[i] = dma_buf[i]
              /\ last_frame_counter' = header.frame_counter
              /\ last_frame_counter' # last_frame_counter
        /\ (daemonPc = "post" /\ daemonPc' # "post") =>
              /\ dma_buf' = dma_buf
              /\ last_frame_counter' = last_frame_counter
              /\ last_frame_counter = header.frame_counter
        /\ daemonPc' \in {"memcpy1", "memcpy2"} => daemonPc \in {"locked", "memcpy1", "memcpy2"}
      ]_vars

\* The daemon holds the semaphore, has found frame_counter unchanged after
\* an earlier copy, and is about to post without copying the frame the
\* arena's pending slot holds.
C29_Witness ==
    /\ daemonPc = "post"
    /\ consumed = 1
    /\ last_frame_counter = 1 /\ current_frame_counter = 1
    /\ header.frame_counter = 1
    /\ dma_buf[pending_index_] # shm_slots[pending_index_]

\* C30: every successful sem_trywait of the daemon takes the semaphore
\* once, nothing posts it while the daemon is still in its section, and the
\* daemon posts it exactly once on leaving the section, whether for the
\* branch or for the exit on a missing buffer; so wherever the daemon
\* rotates indices, runs the rotator, transmits or has left the loop, the
\* semaphore is back (free, or held by the producer).
C30_PostClosesSection ==
    [][ /\ (daemonPc = "trywait" /\ daemonPc' = "locked") =>
              pending_sem' = pending_sem - 1
        /\ (daemonPc \in {"locked", "memcpy1", "memcpy2"}
                /\ daemonPc' \in {"locked", "memcpy1", "memcpy2", "post"}) =>
              pending_sem' = pending_sem
        /\ (daemonPc \in {"locked", "post"}
                /\ daemonPc' \notin {"locked", "memcpy1", "post"}) =>
              /\ daemonPc' \in {"branch", "cleanup"}
              /\ pending_sem' = pending_sem + 1
        /\ daemonPc' \in {"branch", "rot_store", "swap_store", "dma_start", "dma_wait",
                           "cpu_rotate", "swap", "transmit", "cleanup", "exited"} =>
              /\ daemonPc \notin {"trywait", "memcpy1", "memcpy2"}
              /\ pending_sem' + (IF ProducerHolds' THEN 1 ELSE 0) = SemInitValue
      ]_vars

\* The daemon has copied a frame, posted, and is transmitting on the
\* rotation branch while the producer holds the semaphore again.
C30_Witness ==
    /\ daemonPc = "transmit"
    /\ header.rotation_degrees = 180
    /\ consumed = 1
    /\ ProducerHolds
    /\ pending_sem = 0

\* ------------------------------------- arena creation, write by write
\* What a freshly mapped pool buffer may hold before it is cleared.
StaleFrame == << 1, 1 >>

CreationWrites_noSemInit ==
    << "magic", "version", "width", "height", "bytes_per_pixel",
       "buffer_a_bus_addr", "buffer_b_bus_addr", "buffer_c_bus_addr",
       "local_indices", "front_index", "back_index", "pending_index",
       "memset",
       "frame_counter", "rotation_degrees", "daemon_ready", "app_connected" >>

\* createTripleBufferSharedMemory 785-826: its writes in program order.
CreationWrites ==
    << "magic", "version", "width", "height", "bytes_per_pixel",
       "buffer_a_bus_addr", "buffer_b_bus_addr", "buffer_c_bus_addr",
       "local_indices", "front_index", "back_index", "pending_index",
       "sem_init", "memset",
       "frame_counter", "rotation_degrees", "daemon_ready", "app_connected" >>

\* The value createTripleBufferSharedMemory stores into a header field.
CreationValue(field) ==
    CASE field = "magic"             -> Magic
      [] field = "version"           -> Version
      [] field = "width"             -> framebuffer_width
      [] field = "height"            -> framebuffer_height
      [] field = "bytes_per_pixel"   -> BytesPerPixel
      [] field = "buffer_a_bus_addr" -> mailbox_bus_addr_[0]
      [] field = "buffer_b_bus_addr" -> mailbox_bus_addr_[1]
      [] field = "buffer_c_bus_addr" -> mailbox_bus_addr_[2]
      [] field = "front_index"       -> front_index_
      [] field = "back_index"        -> back_index_
      [] field = "pending_index"     -> pending_index_
      [] field = "frame_counter"     -> 0
      [] field = "rotation_degrees"  -> 0
      [] field = "daemon_ready"      -> 0
      [] field = "app_connected"     -> 0

\* createTripleBufferSharedMemory 745-783: the object is unlinked, created
\* anew (zero-filled by ftruncate), mapped, and the members are set.
CreateMap ==
    /\ daemonPc = "create"
    /\ \A i \in Slots : pool_map[i]
    /\ shm_linked' = TRUE
    /\ triple_buffer_header_' = TRUE
    /\ triple_buffer_shm_fd_' = TRUE
    /\ shm_name_' = TRUE
    /\ header' = ZeroHeader
    /\ shm_slots' = [i \in Slots |-> ZeroFrame]
    /\ pending_sem' = 0
    /\ daemonPc' = "creating"
    /\ storeStep' = 1
    /\ UNCHANGED << auxVars, configVars, fbIndexVars, dma_buf, sem_destroyed,
                    g_running, last_frame_counter, current_frame_counter,
                    dma_polls, consumed, panel, producerVars >>

\* One write of createTripleBufferSharedMemory; after the last one the call
\* returns true. A failing sem_init unmaps, closes and unlinks, and main()
\* returns 1.
CreateWrite ==
    /\ daemonPc = "creating"
    /\ LET w == CreationWrites[storeStep]
           last == storeStep = Len(CreationWrites)
       IN  \E sem_ok \in BOOLEAN :
             /\ (w # "sem_init" => sem_ok)
             /\ IF w = "local_indices"
                  THEN front_index_' = 0 /\ back_index_' = 1 /\ pending_index_' = 2
                  ELSE UNCHANGED fbIndexVars
             /\ IF w = "sem_init" /\ sem_ok
                  THEN pending_sem' = SemInitValue /\ sem_destroyed' = FALSE
                  ELSE UNCHANGED << pending_sem, sem_destroyed >>
             /\ IF w = "memset"
                  THEN /\ dma_buf' = [i \in Slots |-> ZeroFrame]
                       /\ shm_slots' = [i \in Slots |-> ZeroFrame]
                  ELSE UNCHANGED << dma_buf, shm_slots >>
             /\ IF w \notin {"local_indices", "sem_init", "memset"}
                  THEN header' = [header EXCEPT ![w] = CreationValue(w)]
                  ELSE UNCHANGED header
             /\ shm_linked' = (shm_linked /\ sem_ok)
             /\ IF ~sem_ok THEN daemonPc' = "exited" /\ storeStep' = 0
                ELSE IF last THEN daemonPc' = "created" /\ storeStep' = 0
                ELSE daemonPc' = "creating" /\ storeStep' = storeStep + 1
    /\ UNCHANGED << auxVars, configVars, fbShmVars,
                    g_running, last_frame_counter, current_frame_counter,
                    dma_polls, consumed, panel, producerVars >>

\* main() 217: `header->rotation_degrees = options.rotation_degrees;`
MainSetRotation ==
    /\ daemonPc = "created"
    /\ header' = [header EXCEPT !.rotation_degrees = rotation_degrees]
    /\ daemonPc' = "publish"
    /\ UNCHANGED << auxVars, configVars, fbIndexVars, fbShmVars, dma_buf,
                    shm_linked, pending_sem, sem_destroyed, shm_slots,
                    g_running, last_frame_counter, current_frame_counter,
                    storeStep, dma_polls, consumed, panel, producerVars >>

\* main() 218: `header->daemon_ready = 1;`, then on to the frame loop.
MainSetReady ==
    /\ daemonPc = "publish"
    /\ header' = [header EXCEPT !.daemon_ready = 1]
    /\ daemonPc' = "loop"
    /\ UNCHANGED << auxVars, configVars, fbIndexVars, fbShmVars, dma_buf,
                    shm_linked, pending_sem, sem_destroyed, shm_slots,
                    g_running, last_frame_counter, current_frame_counter,
                    storeStep, dma_polls, consumed, panel, producerVars >>

\* main() about to create the arena on a mapped pool whose buffers hold
\* zeros or whatever the memory held before.
CreateInit ==
    /\ rotation_degrees \in RotationChoices
    /\ dma_available_ \in BOOLEAN
    /\ mailbox_bus_addr_ \in BusAddrChoices
    /\ pool_map = [i \in Slots |-> TRUE]
    /\ front_index_ = 0 /\ back_index_ = 1 /\ pending_index_ = 2
    /\ triple_buffer_header_ = FALSE
    /\ triple_buffer_shm_fd_ = FALSE
    /\ shm_name_ = FALSE
    /\ dma_buf \in {[i \in Slots |-> ZeroFrame], [i \in Slots |-> StaleFrame]}
    /\ shm_linked = FALSE
    /\ header = ZeroHeader
    /\ pending_sem = 0
    /\ sem_destroyed = FALSE
    /\ shm_slots = [i \in Slots |-> ZeroFrame]
    /\ g_running = 1
    /\ daemonPc = "create"
    /\ last_frame_counter = 0
    /\ current_frame_counter = 0
    /\ storeStep = 0
    /\ dma_polls = 0
    /\ consumed = 0
    /\ panel = ZeroFrame
    /\ producerPc = "off"
    /\ pending_buf = 0
    /\ frame_num = 0
    /\ completed = 0
    /\ AuxQuiescent

\* Creation write by write, then the daemon's frame loop. No producer is
\* attached, so frame_counter stays 0 and the loop never takes its copy.
CreateNext ==
    \/ CreateMap
    \/ CreateWrite
    \/ MainSetRotation
    \/ MainSetReady
    \/ HandleSignal
    \/ DaemonLoopCheck
    \/ DaemonTryWait
    \/ DaemonCheckCounter
    \/ DaemonPost
    \/ DaemonBranch
    \/ DaemonHeaderStore
    \/ DmaStart
    \/ DmaPoll
    \/ DaemonCpuRotate
    \/ DaemonSwap
    \/ DaemonTransmit
    \/ cleanupSharedMemory

CreateSpec == CreateInit /\ [][CreateNext]_vars

\* The shared region as creation leaves it: header fields, semaphore,
\* cleared slots and cleared pool buffers.
CreationComplete ==
    /\ header.magic = Magic /\ header.version = Version
    /\ header.width = framebuffer_width /\ header.height = framebuffer_height
    /\ header.bytes_per_pixel = BytesPerPixel
    /\ header.buffer_a_bus_addr = mailbox_bus_addr_[0]
    /\ header.buffer_b_bus_addr = mailbox_bus_addr_[1]
    /\ header.buffer_c_bus_addr = mailbox_bus_addr_[2]
    /\ << header.front_index, header.back_index, header.pending_index >> = << 0, 1, 2 >>
    /\ pending_sem = SemInitValue /\ ~sem_destroyed
    /\ shm_slots = [i \in Slots |-> ZeroFrame]
    /\ dma_buf = [i \in Slots |-> ZeroFrame]
    /\ header.frame_counter = 0
    /\ header.app_connected = 0

C31_IndicesUpdatedTogether ==
    (header.magic = Magic /\ daemonPc \notin {"create", "exited"}) =>
        /\ {header.front_index, header.back_index, header.pending_index} = Slots
        /\ header.buffer_a_bus_addr = mailbox_bus_addr_[header.front_index]
        /\ header.buffer_b_bus_addr = mailbox_bus_addr_[header.back_index]
        /\ header.buffer_c_bus_addr = mailbox_bus_addr_[header.pending_index]

\* C32: when the DMA channel is still ACTIVE at the deadline, the wait
\* stores RESET into CS and reports failure; the daemon then runs the CPU
\* rotator into the same back buffer, and that buffer becomes front and is
\* the one transmitted before the stage is entered again.
C32_TimeoutFallsBackToCpu ==
    [][ /\ (rotPc = "dma_wait" /\ rotPc' = "cpu") =>
              /\ dma_cs' = "reset"
              /\ rotated' = FALSE
              /\ UNCHANGED fbIndexVars
        /\ (rotPc = "dma_wait" /\ rotPc' = "rotated") => dma_cs' = "idle" /\ rotated'
        /\ (rotPc = "cpu" /\ rotPc' # "cpu") =>
              /\ rotPc' = "rotated"
              /\ back_cpu' = NaiveRotate(pending_cpu, rot_width, rot_height,
                                         rotation_to_apply)
              /\ UNCHANGED << fbIndexVars, pending_cpu, front_cpu, dma_cs >>
        /\ (rotPc = "rotated" /\ rotPc' # "rotated") =>
              /\ rotPc' = "stage"
              /\ front_index_' = back_index_
              /\ front_cpu' = back_cpu
              /\ rot_panel' = back_cpu
              /\ (dma_cs = "reset" =>
                     rot_panel' = NaiveRotate(pending_cpu, rot_width, rot_height,
                                              rotation_to_apply))
      ]_vars

\* An iteration whose DMA wait timed out has ended: CS holds RESET and the
\* panel received the frame as the CPU rotator turned it.
C32_Witness ==
    /\ rotPc = "stage"
    /\ dma_cs = "reset"
    /\ rotation_degrees = 90
    /\ rot_width = 2 /\ rot_height = 1
    /\ front_index_ = 1
    /\ rot_panel = NaiveRotate(pending_cpu, rot_width, rot_height, rotation_to_apply)
    /\ rot_panel # pending_cpu

\* C33: the daemon programs the DMA engine for a frame only when all three
\* bus addresses of the arena are non-zero and the rotator has its DMA
\* register map; in every other case the CS register is not written and
\* the stage goes to the CPU rotator.
C33_DmaGatedOnAllAddresses ==
    [][ rotPc = "stage" =>
          LET can_dma_rotate == /\ header.buffer_a_bus_addr # 0
                                /\ header.buffer_b_bus_addr # 0
                                /\ header.buffer_c_bus_addr # 0
                                /\ dma_available_
          IN  /\ dma_cs' # dma_cs => can_dma_rotate
              /\ rotPc' = "dma_wait" => can_dma_rotate
              /\ (rotPc' # "stage" /\ ~can_dma_rotate) =>
                     rotPc' = "cpu" /\ dma_cs' = dma_cs
      ]_vars

\* ---------------------------------------------------------------------
\* ILI9488Driver::renderFrameRgb666 and ILI9488Driver::swapBuffers.

MaxDriverCalls == 4

\* Frames a caller may pass to renderFrameRgb666.
RenderFrames == { << n, n >> : n \in 1..MaxFrames }

\* What no driver frame call touches.
drvFrame == << configVars, pending_index_, fbShmVars, shmVars, daemonVars,
               producerVars, allocVars, apiVars, spiVars, rotVars, startVars,
               lifeVars >>

\* renderFrameRgb666(p): memcpy into the pool's back buffer (zero-copy),
\* into backBuffer_ (CPU, double-buffered) or into frontBuffer_ (CPU,
\* single-buffered).
DriverRenderFrameRgb666 ==
    /\ Len(drv_log) < MaxDriverCalls
    /\ \E p \in RenderFrames :
         /\ drv_log' = Append(drv_log, [op |-> "renderFrameRgb666", frame |-> p])
         /\ IF zero_copy_mode_
            THEN /\ dma_buf' = [dma_buf EXCEPT ![back_index_] = p]
                 /\ UNCHANGED << frontBuffer_, backBuffer_ >>
            ELSE IF use_double_buffer
                 THEN /\ backBuffer_' = p
                      /\ UNCHANGED << dma_buf, frontBuffer_ >>
                 ELSE /\ frontBuffer_' = p
                      /\ UNCHANGED << dma_buf, backBuffer_ >>
    /\ UNCHANGED << zero_copy_mode_, use_double_buffer, front_index_, back_index_,
                    drvFrame >>

\* swapBuffers(): with use_double_buffer the front and back roles are
\* exchanged (gpu_->swapBuffers() or frontBuffer_.swap(backBuffer_)); then
\* writeFrameDma hands the front buffer to transferDma.
DriverSwapBuffers ==
    /\ Len(drv_log) < MaxDriverCalls
    /\ IF zero_copy_mode_
       THEN LET idx == IF use_double_buffer
                       THEN LocalSwap(front_index_, back_index_, pending_index_)
                       ELSE [front |-> front_index_, back |-> back_index_,
                             pending |-> pending_index_]
            IN  /\ front_index_' = idx.front
                /\ back_index_' = idx.back
                /\ drv_log' = Append(drv_log, [op |-> "swapBuffers",
                                               frame |-> dma_buf[front_index_']])
                /\ UNCHANGED << frontBuffer_, backBuffer_ >>
       ELSE /\ frontBuffer_' = IF use_double_buffer THEN backBuffer_ ELSE frontBuffer_
            /\ backBuffer_' = IF use_double_buffer THEN frontBuffer_ ELSE backBuffer_
            /\ drv_log' = Append(drv_log, [op |-> "swapBuffers",
                                           frame |-> frontBuffer_'])
            /\ UNCHANGED << front_index_, back_index_ >>
    /\ UNCHANGED << zero_copy_mode_, use_double_buffer, dma_buf, drvFrame >>

\* After ILI9488Driver::initialize() returned true: either the framebuffer
\* adopted a DMA pool (zero-copy, the driver's vectors stay empty) or the
\* driver resized its two vectors (zero-filled).
DriverInit ==
    /\ FrameLoopQuiescent
    /\ mailbox_bus_addr_ = [i \in Slots |-> 0]
    /\ zero_copy_mode_ \in BOOLEAN
    /\ use_double_buffer \in BOOLEAN
    /\ pool_map = [i \in Slots |-> zero_copy_mode_]
    /\ frontBuffer_ = IF zero_copy_mode_ THEN << >> ELSE ZeroFrame
    /\ backBuffer_ = IF zero_copy_mode_ THEN << >> ELSE ZeroFrame
    /\ drv_log = << >>
    /\ AllocConstructed /\ allocPc = "idle"
    /\ op_log = << >> /\ snap_log = << >>
    /\ SpiQuiescent
    /\ RotQuiescent
    /\ StartQuiescent
    /\ LifeQuiescent

DriverNext ==
    \/ DriverRenderFrameRgb666
    \/ DriverSwapBuffers

DriverSpec == DriverInit /\ [][DriverNext]_vars

\* C37: whatever the mode (zero-copy or CPU buffers) and whatever
\* use_double_buffer, a swapBuffers() call that directly follows
\* renderFrameRgb666(p) hands frame p to the transport.
C37_RenderThenSwapTransmits ==
    \A k \in DOMAIN drv_log :
        (k > 1 /\ drv_log[k].op = "swapBuffers"
               /\ drv_log[k - 1].op = "renderFrameRgb666")
        => drv_log[k].frame = drv_log[k - 1].frame

\* ---------------------------------------------------------------------
\* The arena's mapping from creation to the destructor: the calls one
\* ILI9488Framebuffer receives, and the sem_destroy, munmap and close they
\* issue.

\* What no call on the arena's mapping touches.
lifeFrame == << configVars, dma_buf, shm_slots, daemonVars, producerVars,
                allocVars, spiVars, rotVars, startVars, drvVars >>

\* createTripleBufferSharedMemory as the first call on the object: it
\* succeeds, or mmap fails (the descriptor is closed, no member is set), or
\* sem_init fails (the region is unmapped, the descriptor closed and the
\* name unlinked, while triple_buffer_header_, triple_buffer_base_,
\* triple_buffer_shm_fd_ and shm_name_ keep the values assigned before).
LifeCreate ==
    /\ lifePc = "constructed"
    /\ op_log = << >>
    /\ \E outcome \in {"ok", "mmap_failed", "sem_init_failed"} :
         /\ Logged(Call(IF outcome = "ok" THEN "create" ELSE outcome,
                        OptionsWidth, OptionsHeight))
         /\ lifePc' = IF outcome = "ok" THEN "created" ELSE "failed"
         /\ triple_buffer_header_' = (outcome # "mmap_failed")
         /\ triple_buffer_base_' = (outcome # "mmap_failed")
         /\ triple_buffer_shm_fd_' = (outcome # "mmap_failed")
         /\ shm_name_' = (outcome # "mmap_failed")
         /\ region_mapped' = (outcome = "ok")
         /\ shm_linked' = (outcome = "ok")
         /\ header' = IF outcome = "ok"
                      THEN CreatedHeader(OptionsWidth, OptionsHeight)
                      ELSE header
         /\ pending_sem' = IF outcome = "ok" THEN SemInitValue ELSE pending_sem
         /\ shm_sys' = IF outcome = "ok" THEN shm_sys
                       ELSE IF outcome = "mmap_failed"
                            THEN [shm_sys EXCEPT !.close = @ + 1]
                            ELSE [shm_sys EXCEPT !.munmap = @ + 1, !.close = @ + 1]
         /\ IF outcome = "mmap_failed" THEN UNCHANGED fbIndexVars
            ELSE front_index_' = 0 /\ back_index_' = 1 /\ pending_index_' = 2
    /\ UNCHANGED << sem_destroyed, released_access, lifeFrame >>

\* rotateBufferIndices or swapBackAndFront on a live object: the local
\* indices, then the header stores when triple_buffer_header_ is not null;
\* stores through a pointer whose region is unmapped are recorded.
LifeIndexOperation(name, idx, stores) ==
    /\ op_log # << >>
    /\ Len(op_log) < MaxOps
    /\ Logged(Call(name, 0, 0))
    /\ front_index_' = idx.front
    /\ back_index_' = idx.back
    /\ pending_index_' = idx.pending
    /\ header' = IF triple_buffer_header_ /\ region_mapped
                 THEN ApplyStores(header, stores, idx, 1) ELSE header
    /\ released_access' = (released_access
                             \/ (triple_buffer_header_ /\ ~region_mapped))
    /\ UNCHANGED << fbShmVars, triple_buffer_base_, region_mapped, shm_sys, lifePc,
                    shm_linked, pending_sem, sem_destroyed, lifeFrame >>

LifeRotateBufferIndices ==
    /\ lifePc # "destroyed"
    /\ LifeIndexOperation("rotateBufferIndices",
                          RotatedIndices(front_index_, back_index_, pending_index_),
                          rotateStores)

LifeSwapBackAndFront ==
    /\ lifePc # "destroyed"
    /\ LifeIndexOperation("swapBackAndFront",
                          SwappedIndices(front_index_, back_index_, pending_index_),
                          swapStores)

\* getShmPendingBuffer and the caller's memcpy from the pointer it got:
\* null (nothing is read) when triple_buffer_base_ is null.
LifeGetShmPendingBuffer ==
    /\ lifePc # "destroyed"
    /\ op_log # << >>
    /\ Len(op_log) < MaxOps
    /\ Logged(Call("getShmPendingBuffer", 0, 0))
    /\ released_access' = (released_access
                             \/ (triple_buffer_base_ /\ ~region_mapped))
    /\ UNCHANGED << fbIndexVars, fbShmVars, triple_buffer_base_, region_mapped,
                    shm_sys, lifePc, shm_linked, header, pending_sem,
                    sem_destroyed, lifeFrame >>

\* The body of cleanupSharedMemory.
CleanupEffects_keepsPointers ==
    /\ shm_sys' = [ sem_destroy |-> shm_sys.sem_destroy
                                      + (IF triple_buffer_header_ THEN 1 ELSE 0),
                    munmap |-> shm_sys.munmap
                                 + (IF triple_buffer_header_ THEN 1 ELSE 0),
                    close |-> shm_sys.close
                                + (IF triple_buffer_shm_fd_ THEN 1 ELSE 0) ]
    /\ released_access' = (released_access
                             \/ (triple_buffer_header_ /\ ~region_mapped))
    /\ sem_destroyed' = (sem_destroyed \/ triple_buffer_header_)
    /\ region_mapped' = (region_mapped /\ ~triple_buffer_header_)
    /\ UNCHANGED << triple_buffer_header_, triple_buffer_base_,
                    triple_buffer_shm_fd_ >>
    /\ shm_name_' = FALSE

\* The body of cleanupSharedMemory: with a header pointer, sem_destroy on
\* the header's semaphore, munmap, both pointers to null; with a
\* descriptor, close and -1; the name is cleared.
CleanupEffects ==
    /\ shm_sys' = [ sem_destroy |-> shm_sys.sem_destroy
                                      + (IF triple_buffer_header_ THEN 1 ELSE 0),
                    munmap |-> shm_sys.munmap
                                 + (IF triple_buffer_header_ THEN 1 ELSE 0),
                    close |-> shm_sys.close
                                + (IF triple_buffer_shm_fd_ THEN 1 ELSE 0) ]
    /\ released_access' = (released_access
                             \/ (triple_buffer_header_ /\ ~region_mapped))
    /\ sem_destroyed' = (sem_destroyed \/ triple_buffer_header_)
    /\ region_mapped' = (region_mapped /\ ~triple_buffer_header_)
    /\ triple_buffer_header_' = FALSE
    /\ triple_buffer_base_' = (triple_buffer_base_ /\ ~triple_buffer_header_)
    /\ triple_buffer_shm_fd_' = FALSE
    /\ shm_name_' = FALSE

\* An explicit cleanupSharedMemory() call, as main() makes after its loop.
LifeCleanup ==
    /\ lifePc # "destroyed"
    /\ Len(op_log) < MaxOps
    /\ Logged(Call("cleanupSharedMemory", 0, 0))
    /\ CleanupEffects
    /\ UNCHANGED << fbIndexVars, lifePc, shm_linked, header, pending_sem,
                    lifeFrame >>

\* ~ILI9488Framebuffer: cleanupSharedMemory, then the pool releases.
LifeDestructor ==
    /\ lifePc # "destroyed"
    /\ Logged(Call("destructor", 0, 0))
    /\ CleanupEffects
    /\ lifePc' = "destroyed"
    /\ UNCHANGED << fbIndexVars, shm_linked, header, pending_sem, lifeFrame >>

\* A constructed ILI9488Framebuffer that adopted a DMA pool.
LifeInit ==
    /\ FrameLoopQuiescent
    /\ mailbox_bus_addr_ \in BusAddrChoices
    /\ pool_map = [i \in Slots |-> TRUE]
    /\ AllocConstructed /\ allocPc = "idle"
    /\ op_log = << >> /\ snap_log = << >>
    /\ SpiQuiescent
    /\ RotQuiescent
    /\ StartQuiescent
    /\ DrvQuiescent
    /\ LifeQuiescent

LifeNext ==
    \/ LifeCreate
    \/ LifeRotateBufferIndices
    \/ LifeSwapBackAndFront
    \/ LifeGetShmPendingBuffer
    \/ LifeCleanup
    \/ LifeDestructor

LifeSpec == LifeInit /\ [][LifeNext]_vars

\* Calls k of the log that are cleanupSharedMemory, explicit or from the
\* destructor.
CleanupCalls ==
    { k \in DOMAIN op_log : op_log[k].op \in {"cleanupSharedMemory", "destructor"} }

\* C38: on an object whose arena was created, over any number of
\* cleanupSharedMemory calls (explicit ones and the destructor's) the
\* semaphore is destroyed, the region unmapped and the descriptor closed at
\* most once, and exactly once as soon as one such call was made; after the
\* first of them the pointers are null and the descriptor is -1, and no
\* rotateBufferIndices, swapBackAndFront or getShmPendingBuffer call, before
\* or after, reads or writes through the unmapped region.
C38_CleanupIdempotent ==
    (op_log # << >> /\ op_log[1].op = "create") =>
        /\ shm_sys.sem_destroy <= 1
        /\ shm_sys.munmap <= 1
        /\ shm_sys.close <= 1
        /\ ~released_access
        /\ CleanupCalls # {} =>
             /\ shm_sys = [sem_destroy |-> 1, munmap |-> 1, close |-> 1]
             /\ ~triple_buffer_header_
             /\ ~triple_buffer_base_
             /\ ~triple_buffer_shm_fd_
             /\ ~region_mapped
        /\ CleanupCalls = {} => region_mapped /\ triple_buffer_header_

\* The arena was created, cleaned up explicitly, rotated and asked for the
\* pending slot after that, and the object was then destroyed.
C38_Witness ==
    /\ lifePc = "destroyed"
    /\ Len(op_log) >= 5
    /\ op_log[1].op = "create"
    /\ \E k \in DOMAIN op_log :
         /\ op_log[k].op = "cleanupSharedMemory"
         /\ k + 2 < Len(op_log)
         /\ op_log[k + 1].op = "rotateBufferIndices"
         /\ op_log[k + 2].op = "getShmPendingBuffer"
    /\ op_log[Len(op_log)].op = "destructor"
    /\ shm_sys = [sem_destroy |-> 1, munmap |-> 1, close |-> 1]

====
